---- MODULE Spec2Model ----
(***************************************************************************)
(* Model of the SMTP delivery subsystem of tiauth-faroe (src/email.go,     *)
(* live version, lines 303-927) together with the process entry point      *)
(* (src/main.go, lines 19-137).                                            *)
(*                                                                         *)
(* Processes: main, the callers of SendEmailWithHTML, and the keep-alive   *)
(* goroutine spawned by Start.  The network is the environment: every      *)
(* protocol step and every connection attempt may fail, and the server may *)
(* drop the connection of the current handle at any time.                  *)
(***************************************************************************)
EXTENDS Integers, Sequences, FiniteSets, TLC

(* ---------------- bounds of the model ---------------- *)
NumCallers == 2
MaxHandles == 4
MaxWatchdogs == 2
NumRunCallers == 1
MaxSubscribers == 2
(* the clock stops after MaxNow ticks; TicksPerSecond instants of the clock
   lie within one second *)
MaxNow == 2
TicksPerSecond == 2
(* the counter of a row of the key_value table is raised up to MaxCounter *)
MaxCounter == 2

(* ---------------- program constants ---------------- *)
MaxAttempts == 3
ErrChanCap == 1

Callers == 1..NumCallers
Watchdogs == 1..MaxWatchdogs
Handles == 1..MaxHandles
RunCallers == 1..NumRunCallers
Conns == 1..MaxSubscribers

VARIABLES
    config,      \* smtpConfig and the -no-smtp-init flag, fixed at start-up
    client,      \* emailSender.client: 0 is nil, otherwise a handle
    m,           \* emailSender.m: Free or the process that locked it
    errChan,     \* emailSender.errChan: 0 is nil, otherwise an index of chans
    stopChan,    \* emailSender.stopChan: 0 is nil, otherwise its generation
    chans,       \* buffers of the error channels made so far
    nextHandle,  \* next fresh connection id
    open,        \* connections opened by the subsystem and not closed by it
    dropped,     \* the current handle, if the server has dropped its connection
    sendPc, iter, mailErr, result,      \* per caller: SendEmailWithHTML
    nMail, nReconn, okAt,               \* per caller: history of the call
    writer,      \* per caller: the handle of the writer Data returned, or 0
    rcpts,       \* per caller: the recipients declared in this attempt
    wdPc,        \* per keep-alive goroutine: position
    wdSpawned,   \* number of keep-alive goroutines started
    probeFailed, \* the current handle, if a keep-alive probe failed on it
    wdInstalled, \* the current handle, if a keep-alive goroutine installed it
    mainPc,      \* position of main
    mainErrChan, \* the channel operand main's select evaluated
    exited,      \* "no", or why the process ended
    stopClosed,  \* the current stopChan has been closed
    quitOn,      \* the handle Close has sent QUIT on, 0 if none
    runErr,      \* the error tiauth.Run is about to return, "" if none
    tbSocketPath,\* TokenBroadcaster.socketPath: "" or the configured path
    tbListener,  \* tb.listener: "nil", "open" or "closed"; "absent" when
                 \* the sender has no tokenBroadcaster at all
    tbStop,      \* tb.stopChan has been closed
    tbClients,   \* tb.clients: the connections in the client set
    conn,        \* per connection: "free", "open" once Accept returned it,
                 \* "closed" once the broadcaster closed it
    handler,     \* per connection: its handleClient goroutine is running
    received,    \* per connection: the bytes its subscriber has been sent,
                 \* one element per Write
    acceptPc,    \* acceptLoop: "off", "accept", "add" or "ended"
    acceptConn,  \* acceptLoop: the connection Accept returned, or 0
    code,        \* per caller: the code argument its Send... call has
    bcSnap,      \* per caller: the clients Broadcast copied under RLock
    bcTodo,      \* per caller: the clients Broadcast has yet to write to
    bcWrote,     \* per caller: the clients its Write succeeded on
    bcFailed,    \* per caller: the clients its Write failed on
    templates,   \* emailSender.templates: nil, or what the table holds
                 \* under each template name
    senderName,  \* config.senderName
    now,         \* the clock, in ticks
    mEvent,      \* per caller: the Send... method called, "" if none
    mName,       \* per caller: the displayName argument
    mText,       \* per caller: textBody of the Send... method
    mHtml,       \* per caller: htmlBody of the Send... method
    mArgs,       \* per caller: the arguments of SendEmailWithHTML
    mDate,       \* per caller: date of SendEmailWithHTML
    mId,         \* per caller: messageId of SendEmailWithHTML
    message,     \* per caller: message of SendEmailWithHTML
    dialPc,      \* createConnectedSmtpClient, step by step: its position
    dialConn,    \* the connection it dialed: handle (0 if none), local
                 \* address, and whether the TLS upgrade has completed
    dialLog,     \* the steps it has executed, in order
    dialResult,  \* what it returned: its client (0 is nil) and its error
    lastFailed,  \* the handle the last command of a Send ran on when the
                 \* call failed its last attempt, until the next Send
                 \* makes its first attempt; 0 if none
    bcCalls,     \* per caller: the calls of Broadcast... its Send... call
                 \* has made
    store,       \* the key_value table: per key its row, or NoEntry
    stKind,      \* which of the two storages the table belongs to
    stLast,      \* the last storage call: its arguments and what it
                 \* returned
    stWon,       \* per key: the counters an Update succeeded with since
                 \* the row was last inserted, replaced or deleted
    stWonEver    \* per key: the counters an Update ever succeeded with

vars == <<config, client, m, errChan, stopChan, chans, nextHandle, open,
          dropped, sendPc, iter, mailErr, result, nMail, nReconn, okAt,
          writer, rcpts,
          wdPc, wdSpawned, probeFailed,
          wdInstalled, mainPc, mainErrChan, exited, stopClosed, quitOn,
          runErr, tbSocketPath, tbListener, tbStop, tbClients, conn,
          handler, received, acceptPc, acceptConn, code, bcSnap, bcTodo,
          bcWrote, bcFailed, templates, senderName, now, mEvent, mName,
          mText, mHtml, mArgs, mDate, mId, message, dialPc, dialConn,
          dialLog, dialResult,
          lastFailed, bcCalls, store, stKind, stLast, stWon, stWonEver>>

attemptVars == <<writer, rcpts>>
sendVars == <<sendPc, iter, mailErr, result, nMail, nReconn, okAt,
              attemptVars>>
netVars == <<nextHandle, open, dropped>>
startVars == <<errChan, stopChan, chans, wdSpawned>>
wdHist == <<probeFailed, wdInstalled>>
mainVars == <<mainPc, mainErrChan, exited>>
lifeVars == <<stopClosed, quitOn, runErr>>
tbVars == <<tbSocketPath, tbListener, tbStop, tbClients>>
sockVars == <<conn, handler, received>>
acceptVars == <<acceptPc, acceptConn>>
callVars == <<code, bcSnap, bcTodo, bcWrote, bcFailed>>
bcastVars == <<tbVars, sockVars, acceptVars, callVars>>
renderVars == <<mEvent, mName, mText, mHtml>>
composeVars == <<mArgs, mDate, mId, message>>
dialVars == <<dialPc, dialConn, dialLog, dialResult>>
histVars == <<lastFailed, bcCalls>>
calcVars == <<templates, senderName, now, renderVars, composeVars, dialVars>>
storageVars == <<store, stKind, stLast, stWon, stWonEver>>
unitVars == <<calcVars, histVars, storageVars>>

(* ---------------- values ---------------- *)
Free == <<"free", 0>>
MainProc == <<"main", 0>>
SendProc(c) == <<"send", c>>
WdProc(w) == <<"wd", w>>

NoErr == <<"nil", "", 0>>
NoArgs == <<>>
NoResult == [client |-> 0, err |-> NoErr]
NoConn == [h |-> 0, localAddr |-> <<>>, tls |-> FALSE]
(* the nil *template.Template of a sender without templates directory *)
NilTemplates == [isNil |-> TRUE, named |-> <<>>]
(* the key_value table (vite.config.ts 77-84; main-storage.go 66-73): a
   row has a value, a counter and an expiration; NoEntry stands for a key
   without a row, and NoCall for no storage call yet *)
Keys == {"k"}
Values == {"a", "b"}
NoEntry ==
    [exists |-> FALSE, value |-> "", counter |-> 0, expiration |-> <<>>]
NoCall ==
    [op |-> "", key |-> "", value |-> "", expiration |-> <<>>,
     counter |-> 0, err |-> "nil", seq |-> 0]
StorageIdle ==
    /\ store = [k \in Keys |-> NoEntry]
    /\ stKind = "storage"
    /\ stLast = NoCall
    /\ stWon = [k \in Keys |-> {}]
    /\ stWonEver = [k \in Keys |-> {}]
SendErr(step, attempt) == <<"send", step, attempt>>
ConnErr(fault) == <<"connect", fault, 0>>
StartErr(fault) == <<"start", fault, 0>>
WatchdogErr(fault) == <<"reestablish", fault, 0>>

(* SMTPSecurity.EnableSecurity: every value but the insecure one enables TLS *)
EnableSecurityOnlyNamed(v) == v = "SMTPSecure"

EnableSecurity(v) ==
    CASE v = "SMTPSecure" -> TRUE
      [] v = "SMTPInsecureDangerous" -> FALSE
      [] OTHER -> TRUE

Configs ==
    [noSmtpInit : BOOLEAN, disableKeepAlive : BOOLEAN,
     security : {"SMTPSecure", "SMTPInsecureDangerous"}, auth : {FALSE}]

(* ---------------- the network ---------------- *)
Usable(h) == h \in open /\ h \notin dropped

(* outcome of one protocol command on handle h: a dropped connection always
   fails, a live one may still be refused by the server *)
StepOutcomes(h) == IF Usable(h) THEN {TRUE, FALSE} ELSE {FALSE}

(* the places where createConnectedSmtpClient can fail *)
ConnectFaults ==
    IF nextHandle > MaxHandles THEN {"dial"}
    ELSE {"ok", "dial", "newClient", "hello"}
         \cup (IF EnableSecurity(config.security) THEN {"tls"} ELSE {})
         \cup (IF config.auth THEN {"auth"} ELSE {})

(* createConnectedSmtpClient: dial, NewClient, Hello, StartTLS, Auth.
   A Hello failure returns without closing the connection; smtp.NewClient
   closes it itself when it fails, and StartTLS and Auth failures are
   followed by client.Close(). *)
createConnectedSmtpClient(fault) ==
    LET leftOpen == fault \in {"ok", "hello"}
    IN  [client |-> IF fault = "ok" THEN nextHandle ELSE 0,
         fault  |-> fault,
         open   |-> IF leftOpen THEN open \cup {nextHandle} ELSE open,
         next   |-> IF leftOpen THEN nextHandle + 1 ELSE nextHandle]

(* what is recorded about handles is kept for the current handle only: once
   emailSender.client is overwritten nothing refers to the old handle *)
Forget(S, current) == S \cap {current}

(* ---------------- Start ---------------- *)
(* Start (email.go 873-915), to be called with the mutex held: makes fresh
   channels, connects, installs the handle and, unless keep-alive is
   disabled, starts the keep-alive goroutine.  On a connection error the
   channels have already been replaced and the handle is untouched. *)
Start(fault) ==
    LET r == createConnectedSmtpClient(fault)
        spawn == fault = "ok" /\ ~config.disableKeepAlive
                 /\ wdSpawned < MaxWatchdogs
    IN  /\ chans' = Append(chans, <<>>)
        /\ errChan' = Len(chans) + 1
        /\ stopChan' = Len(chans) + 1
        /\ stopClosed' = FALSE
        /\ nextHandle' = r.next
        /\ open' = r.open
        /\ client' = IF fault = "ok" THEN r.client ELSE client
        /\ dropped' = Forget(dropped, client')
        /\ probeFailed' = Forget(probeFailed, client')
        /\ wdInstalled' = Forget(wdInstalled, client')
        /\ wdSpawned' = IF spawn THEN wdSpawned + 1 ELSE wdSpawned
        /\ wdPc' = IF spawn THEN [wdPc EXCEPT ![wdSpawned + 1] = "idle"]
                   ELSE wdPc

Running == exited = "no"

(* log.Fatal: os.Exit ends the process at once, deferred calls do not run;
   every goroutine, the handle and the channels are gone *)
ProcessExit(cause) ==
    /\ exited' = cause
    /\ mainPc' = "exited"
    /\ mainErrChan' = 0
    /\ client' = 0
    /\ m' = Free
    /\ errChan' = 0
    /\ stopChan' = 0
    /\ chans' = <<>>
    /\ nextHandle' = 1
    /\ open' = {}
    /\ dropped' = {}
    /\ sendPc' = [c \in Callers |-> "idle"]
    /\ iter' = [c \in Callers |-> 0]
    /\ mailErr' = [c \in Callers |-> NoErr]
    /\ result' = [c \in Callers |-> NoErr]
    /\ nMail' = [c \in Callers |-> 0]
    /\ nReconn' = [c \in Callers |-> 0]
    /\ okAt' = [c \in Callers |-> 0]
    /\ writer' = [c \in Callers |-> 0]
    /\ rcpts' = [c \in Callers |-> <<>>]
    /\ wdPc' = [w \in Watchdogs |-> "off"]
    /\ wdSpawned' = 0
    /\ probeFailed' = {}
    /\ wdInstalled' = {}
    /\ stopClosed' = FALSE
    /\ quitOn' = 0
    /\ runErr' = ""
    /\ tbListener' = IF tbListener = "absent" THEN "absent" ELSE "nil"
    /\ tbStop' = FALSE
    /\ tbClients' = {}
    /\ conn' = [k \in Conns |-> "free"]
    /\ handler' = [k \in Conns |-> FALSE]
    /\ received' = [k \in Conns |-> <<>>]
    /\ acceptPc' = "off"
    /\ acceptConn' = 0
    /\ code' = [c \in Callers |-> <<>>]
    /\ bcSnap' = [c \in Callers |-> {}]
    /\ bcTodo' = [c \in Callers |-> {}]
    /\ bcWrote' = [c \in Callers |-> {}]
    /\ bcFailed' = [c \in Callers |-> {}]
    /\ now' = 0
    /\ mEvent' = [c \in Callers |-> ""]
    /\ mName' = [c \in Callers |-> <<>>]
    /\ mText' = [c \in Callers |-> <<>>]
    /\ mHtml' = [c \in Callers |-> <<>>]
    /\ mArgs' = [c \in Callers |-> NoArgs]
    /\ mDate' = [c \in Callers |-> <<>>]
    /\ mId' = [c \in Callers |-> <<>>]
    /\ message' = [c \in Callers |-> <<>>]
    /\ dialPc' = "idle"
    /\ dialConn' = NoConn
    /\ dialLog' = <<>>
    /\ dialResult' = NoResult
    /\ lastFailed' = 0
    /\ bcCalls' = [c \in Callers |-> 0]
    /\ UNCHANGED <<config, storageVars, tbSocketPath, templates, senderName>>

(* the HTTP server has been started and the process is alive: requests
   arrive from listen on (main.go 120, app.go 151), also while Run's deferred
   calls run, because nothing stops the HTTP server *)
Serving ==
    mainPc \in {"select", "wait", "closeLock", "stop", "quit", "closeUnlock",
                "closed", "tbClear", "tbUnlisten", "tbClosed"}

(* ---------------- SendEmailWithHTML ---------------- *)
(* a caller enters SendEmailWithHTML; the message is composed before the
   mutex is requested (email.go 498-567).  Callers are interchangeable, so
   they are numbered in the order of their calls. *)
SendBegin(c) ==
    /\ Running
    /\ Serving
    /\ sendPc[c] = "idle"
    /\ \A b \in Callers : b < c => sendPc[b] # "idle"
    /\ sendPc' = [sendPc EXCEPT ![c] = "lock"]
    /\ UNCHANGED <<config, unitVars, bcastVars, lifeVars, client, m, netVars,
                   startVars, wdPc, wdHist, mainVars, iter, mailErr, result,
                   nMail, nReconn, okAt, attemptVars>>

(* a Send that enters its loop without taking the mutex *)
SendLockSkipped(c) ==
    /\ Running
    /\ sendPc[c] = "lock"
    /\ sendPc' = [sendPc EXCEPT ![c] = "top"]
    /\ UNCHANGED <<config, unitVars, bcastVars, lifeVars, client, m, netVars,
                   startVars, wdPc, wdHist, mainVars, iter, mailErr, result,
                   nMail, nReconn, okAt, attemptVars>>

(* emailSender.m.Lock() (email.go 569) *)
SendLock(c) ==
    /\ Running
    /\ sendPc[c] = "lock"
    /\ m = Free
    /\ m' = SendProc(c)
    /\ sendPc' = [sendPc EXCEPT ![c] = "top"]
    /\ UNCHANGED <<config, unitVars, bcastVars, lifeVars, client, netVars,
                   startVars, wdPc, wdHist, mainVars, iter, mailErr, result,
                   nMail, nReconn, okAt, attemptVars>>

(* the loop condition of `for range 3` (email.go 573) *)
LoopContinuesOneMore(i) == i < MaxAttempts + 1

LoopContinues(i) == i < MaxAttempts

(* a Send that gives up its handle when the loop has run out *)
SendLoopExitClearsHandle(c) ==
    /\ Running
    /\ sendPc[c] = "top"
    /\ ~LoopContinues(iter[c])
    /\ result' = [result EXCEPT ![c] = mailErr[c]]
    /\ sendPc' = [sendPc EXCEPT ![c] = "ret"]
    /\ client' = 0
    /\ UNCHANGED <<config, unitVars, bcastVars, lifeVars, m, netVars,
                   startVars, wdPc, wdHist, mainVars, iter, mailErr, nMail,
                   nReconn, okAt, attemptVars>>

(* the loop has run out: return mailErr (email.go 623) *)
SendLoopExit(c) ==
    /\ Running
    /\ sendPc[c] = "top"
    /\ ~LoopContinues(iter[c])
    /\ result' = [result EXCEPT ![c] = mailErr[c]]
    /\ sendPc' = [sendPc EXCEPT ![c] = "ret"]
    /\ UNCHANGED <<config, unitVars, bcastVars, lifeVars, client, m, netVars,
                   startVars, wdPc, wdHist, mainVars, iter, mailErr, nMail,
                   nReconn, okAt, attemptVars>>

(* what a failed reconnect leaves in emailSender.client (email.go 575-579) *)
ClientAfterFailedReconnectNil(old) == 0

ClientAfterFailedReconnect(old) == old

(* what a successful reconnect leaves in emailSender.client (email.go 579) *)
ClientAfterReconnectReused(old, fresh) == old

ClientAfterReconnect(old, fresh) == fresh

(* an iteration that follows a failed attempt: reconnect first
   (email.go 574-580); a connection error is returned at once *)
SendReconnect(c) ==
    /\ Running
    /\ sendPc[c] = "top"
    /\ LoopContinues(iter[c])
    /\ mailErr[c] # NoErr
    /\ \E fault \in ConnectFaults :
         LET r == createConnectedSmtpClient(fault)
         IN  /\ nextHandle' = r.next
             /\ open' = r.open
             /\ nReconn' = [nReconn EXCEPT ![c] = @ + 1]
             /\ IF fault = "ok"
                THEN /\ client' = ClientAfterReconnect(client, r.client)
                     /\ iter' = [iter EXCEPT ![c] = @ + 1]
                     /\ sendPc' = [sendPc EXCEPT ![c] = "mail"]
                     /\ UNCHANGED result
                ELSE /\ client' = ClientAfterFailedReconnect(client)
                     /\ result' = [result EXCEPT ![c] = ConnErr(fault)]
                     /\ sendPc' = [sendPc EXCEPT ![c] = "ret"]
                     /\ UNCHANGED iter
    /\ dropped' = Forget(dropped, client')
    /\ probeFailed' = Forget(probeFailed, client')
    /\ wdInstalled' = Forget(wdInstalled, client')
    /\ UNCHANGED <<config, unitVars, bcastVars, lifeVars, m, startVars, wdPc,
                   mainVars, mailErr, nMail, okAt, attemptVars>>

(* where the call goes when the lazy Start failed: `return err`
   (email.go 584-586) *)
PcAfterFailedStartGoesOn == "mail"

PcAfterFailedStart == "ret"

(* first iteration without a handle: start lazily (email.go 582-587) *)
SendLazyStart(c) ==
    /\ Running
    /\ sendPc[c] = "top"
    /\ LoopContinues(iter[c])
    /\ mailErr[c] = NoErr
    /\ client = 0
    /\ \E fault \in ConnectFaults :
         /\ Start(fault)
         /\ IF fault = "ok"
            THEN /\ iter' = [iter EXCEPT ![c] = @ + 1]
                 /\ sendPc' = [sendPc EXCEPT ![c] = "mail"]
                 /\ UNCHANGED result
            ELSE /\ result' = [result EXCEPT ![c] = StartErr(fault)]
                 /\ sendPc' = [sendPc EXCEPT ![c] = PcAfterFailedStart]
                 /\ UNCHANGED iter
    /\ UNCHANGED <<config, unitVars, bcastVars, quitOn, runErr, m, mainVars,
                   mailErr, nMail, nReconn, okAt, attemptVars>>

(* first iteration with a handle: go straight to the transmission *)
SendEnter(c) ==
    /\ Running
    /\ sendPc[c] = "top"
    /\ LoopContinues(iter[c])
    /\ mailErr[c] = NoErr
    /\ client # 0
    /\ iter' = [iter EXCEPT ![c] = @ + 1]
    /\ sendPc' = [sendPc EXCEPT ![c] = "mail"]
    /\ lastFailed' = 0
    /\ UNCHANGED <<config, storageVars, calcVars, bcCalls, bcastVars, lifeVars,
                   client, m, netVars, startVars, wdPc, wdHist, mainVars,
                   mailErr, result, nMail, nReconn, okAt, attemptVars>>

(* mailErr after a failed command of the given attempt: the new failure
   replaces whatever was there (email.go 591, 596, 602, 608, 614) *)
MailErrKeepFirst(old, step, attempt) ==
    IF old = NoErr THEN SendErr(step, attempt) ELSE old

MailErrAfterFailure(old, step, attempt) == SendErr(step, attempt)

(* the addresses: the receiverEmail argument of call c, and
   config.senderEmail *)
receiverEmail(c) == <<"to", c>>
senderEmail == <<"from", 0>>

(* the argument of the RCPT command (email.go 595) *)
RcptArgumentSender(c) == senderEmail

RcptArgument(c) == receiverEmail(c)

(* the handle a command runs on: Mail, Rcpt and Data are called on the
   emailSender.client field, Write and Close on the writer that Data
   returned (email.go 589-612) *)
HandleOf(c, step) ==
    IF step \in {"write", "close"} THEN writer[c] ELSE client

(* one protocol command of an attempt; on failure mailErr is set and the
   loop continues, which ends the scope of writer (email.go 589-616) *)
ProtocolStep(c, step, nextPc) ==
    /\ Running
    /\ sendPc[c] = step
    /\ \E ok \in StepOutcomes(HandleOf(c, step)) :
         IF ok
         THEN /\ sendPc' = [sendPc EXCEPT ![c] = nextPc]
              /\ writer' = IF step = "data"
                           THEN [writer EXCEPT ![c] = client] ELSE writer
              /\ rcpts' = IF step = "rcpt"
                          THEN [rcpts EXCEPT
                                ![c] = Append(@, RcptArgument(c))]
                          ELSE rcpts
              /\ UNCHANGED mailErr
              /\ UNCHANGED lastFailed
         ELSE /\ mailErr' = [mailErr EXCEPT
                             ![c] = MailErrAfterFailure(@, step, iter[c])]
              /\ sendPc' = [sendPc EXCEPT ![c] = "top"]
              /\ writer' = [writer EXCEPT ![c] = 0]
              /\ rcpts' = [rcpts EXCEPT ![c] = <<>>]
              /\ lastFailed' = IF iter[c] < MaxAttempts THEN lastFailed
                               ELSE HandleOf(c, step)
    /\ nMail' = IF step = "mail" THEN [nMail EXCEPT ![c] = @ + 1] ELSE nMail
    /\ UNCHANGED <<config, storageVars, calcVars, bcCalls, bcastVars, lifeVars,
                   client, m, netVars, startVars, wdPc, wdHist, mainVars, iter,
                   result, nReconn, okAt>>

SendMail(c) == ProtocolStep(c, "mail", "rcpt")
SendRcpt(c) == ProtocolStep(c, "rcpt", "data")
SendData(c) == ProtocolStep(c, "data", "write")
SendWrite(c) == ProtocolStep(c, "write", "close")
SendCloseWriter(c) == ProtocolStep(c, "close", "sent")

(* the value returned after an attempt completed (email.go 618-623) *)
ErrAfterSuccessKept(e) == e

ErrAfterSuccess(e) == NoErr

(* every command succeeded: clear mailErr, leave the loop and return *)
SendSuccess(c) ==
    /\ Running
    /\ sendPc[c] = "sent"
    /\ mailErr' = [mailErr EXCEPT ![c] = ErrAfterSuccess(@)]
    /\ result' = [result EXCEPT ![c] = ErrAfterSuccess(mailErr[c])]
    /\ okAt' = [okAt EXCEPT ![c] = iter[c]]
    /\ sendPc' = [sendPc EXCEPT ![c] = "ret"]
    /\ UNCHANGED <<config, unitVars, bcastVars, lifeVars, client, m, netVars,
                   startVars, wdPc, wdHist, mainVars, iter, nMail, nReconn,
                   attemptVars>>

(* the deferred emailSender.m.Unlock() (email.go 570); the call returns and
   its locals are gone *)
SendUnlock(c) ==
    /\ Running
    /\ sendPc[c] = "ret"
    /\ m' = Free
    /\ sendPc' = [sendPc EXCEPT ![c] = "done"]
    /\ iter' = [iter EXCEPT ![c] = 0]
    /\ mailErr' = [mailErr EXCEPT ![c] = NoErr]
    /\ result' = [result EXCEPT ![c] = NoErr]
    /\ nMail' = [nMail EXCEPT ![c] = 0]
    /\ nReconn' = [nReconn EXCEPT ![c] = 0]
    /\ okAt' = [okAt EXCEPT ![c] = 0]
    /\ writer' = [writer EXCEPT ![c] = 0]
    /\ rcpts' = [rcpts EXCEPT ![c] = <<>>]
    /\ UNCHANGED <<config, unitVars, bcastVars, lifeVars, client, netVars,
                   startVars, wdPc, wdHist, mainVars>>

(* ---------------- the keep-alive goroutine ---------------- *)
(* ticker.C fires: the goroutine calls KeepAlive (email.go 892-893) *)
WdTick(w) ==
    /\ Running
    /\ wdPc[w] = "idle"
    /\ wdPc' = [wdPc EXCEPT ![w] = "lock"]
    /\ UNCHANGED <<config, unitVars, bcastVars, lifeVars, client, m, netVars,
                   startVars, wdHist, mainVars, sendVars>>

(* a KeepAlive that probes without taking the mutex *)
KeepAliveLockSkipped(w) ==
    /\ Running
    /\ wdPc[w] = "lock"
    /\ wdPc' = [wdPc EXCEPT ![w] = "probe"]
    /\ UNCHANGED <<config, unitVars, bcastVars, lifeVars, client, m, netVars,
                   startVars, wdHist, mainVars, sendVars>>

(* KeepAlive: emailSender.m.Lock() (email.go 860) *)
KeepAliveLock(w) ==
    /\ Running
    /\ wdPc[w] = "lock"
    /\ m = Free
    /\ m' = WdProc(w)
    /\ wdPc' = [wdPc EXCEPT ![w] = "probe"]
    /\ UNCHANGED <<config, unitVars, bcastVars, lifeVars, client, netVars,
                   startVars, wdHist, mainVars, sendVars>>

(* KeepAlive: Noop succeeded, unlock and return nil (email.go 863-869) *)
KeepAliveOk(w) ==
    /\ Running
    /\ wdPc[w] = "probe"
    /\ TRUE \in StepOutcomes(client)
    /\ m' = Free
    /\ wdPc' = [wdPc EXCEPT ![w] = "idle"]
    /\ UNCHANGED <<config, unitVars, bcastVars, lifeVars, client, netVars,
                   startVars, wdHist, mainVars, sendVars>>

(* KeepAlive: Noop failed, return the error with the mutex still locked
   (email.go 863-866) *)
KeepAliveFail(w) ==
    /\ Running
    /\ wdPc[w] = "probe"
    /\ FALSE \in StepOutcomes(client)
    /\ probeFailed' = probeFailed \cup {client}
    /\ wdPc' = [wdPc EXCEPT ![w] = "recover"]
    /\ UNCHANGED <<config, unitVars, bcastVars, lifeVars, client, m, netVars,
                   startVars, wdInstalled, mainVars, sendVars>>

(* emailSender.client after a successful reconnect of the goroutine
   (email.go 900) *)
ClientAfterRecoverStale(old, fresh) == old

ClientAfterRecover(old, fresh) == fresh

(* the goroutine reconnects after a failed probe: on success it installs
   the fresh handle and unlocks; on failure it goes on to report the error
   (email.go 894-901) *)
WdRecover(w) ==
    /\ Running
    /\ wdPc[w] = "recover"
    /\ \E fault \in ConnectFaults :
         LET r == createConnectedSmtpClient(fault)
         IN  /\ nextHandle' = r.next
             /\ open' = r.open
             /\ IF fault = "ok"
                THEN /\ client' = ClientAfterRecover(client, r.client)
                     /\ dropped' = Forget(dropped, client')
                     /\ probeFailed' = Forget(probeFailed, client')
                     /\ wdInstalled' = {client'}
                     /\ m' = Free
                     /\ wdPc' = [wdPc EXCEPT ![w] = "idle"]
                ELSE /\ wdPc' = [wdPc EXCEPT ![w] = "report"]
                     /\ UNCHANGED <<client, m, dropped, wdHist>>
    /\ UNCHANGED <<config, unitVars, bcastVars, lifeVars, startVars, mainVars,
                   sendVars>>

(* where the goroutine is after the error was sent: `return` (email.go 898) *)
PcAfterReportLoops == "idle"

PcAfterReport == "dead"

(* emailSender.errChan <- err, then return: the goroutine ends with the
   mutex still locked (email.go 897-898).  The send blocks while the
   channel is nil or its buffer is full. *)
WdReport(w) ==
    /\ Running
    /\ wdPc[w] = "report"
    /\ errChan # 0
    /\ Len(chans[errChan]) < ErrChanCap
    /\ chans' = [chans EXCEPT ![errChan] = Append(@, WatchdogErr("fail"))]
    /\ wdPc' = [wdPc EXCEPT ![w] = PcAfterReport]
    /\ UNCHANGED <<config, unitVars, bcastVars, lifeVars, client, m, netVars,
                   errChan, stopChan, wdSpawned, wdHist, mainVars, sendVars>>

(* whether a goroutine that has received the stop signal ends
   (email.go 906-908) *)
PcAfterStopIgnored == "idle"

PcAfterStop == "stopped"

(* case <-emailSender.stopChan: the goroutine ends (email.go 906-908).  A
   closed channel is always ready to be received from. *)
WdStop(w) ==
    /\ Running
    /\ wdPc[w] = "idle"
    /\ stopClosed
    /\ wdPc' = [wdPc EXCEPT ![w] = PcAfterStop]
    /\ UNCHANGED <<config, unitVars, bcastVars, lifeVars, client, m, netVars,
                   startVars, wdHist, mainVars, sendVars>>

(* ---------------- main ---------------- *)
(* -no-smtp-init: main does not start the sender (main.go 88-89) *)
MainSkipInit ==
    /\ Running
    /\ mainPc = "boot"
    /\ config.noSmtpInit
    /\ mainPc' = "listen"
    /\ UNCHANGED <<config, unitVars, bcastVars, lifeVars, client, m, netVars,
                   startVars, wdPc, wdHist, mainErrChan, exited, sendVars>>

(* emailSender.m.Lock() (main.go 91) *)
MainLock ==
    /\ Running
    /\ mainPc = "boot"
    /\ ~config.noSmtpInit
    /\ m = Free
    /\ m' = MainProc
    /\ mainPc' = "start"
    /\ UNCHANGED <<config, unitVars, bcastVars, lifeVars, client, netVars,
                   startVars, wdPc, wdHist, mainErrChan, exited, sendVars>>

(* emailSender.Start; an error is fatal (main.go 92-95) *)
MainStart ==
    /\ Running
    /\ mainPc = "start"
    /\ \E fault \in ConnectFaults :
         IF fault = "ok"
         THEN /\ Start(fault)
              /\ mainPc' = "unlock"
              /\ UNCHANGED <<config, unitVars, bcastVars, quitOn, runErr, m,
                             mainErrChan, exited, sendVars>>
         ELSE ProcessExit("startFatal")

(* emailSender.m.Unlock() (main.go 96) *)
MainUnlock ==
    /\ Running
    /\ mainPc = "unlock"
    /\ m' = Free
    /\ mainPc' = "listen"
    /\ UNCHANGED <<config, unitVars, bcastVars, lifeVars, client, netVars,
                   startVars, wdPc, wdHist, mainErrChan, exited, sendVars>>

(* server.listen(port): from here on requests, and so Sends, arrive
   (main.go 119-120) *)
MainListen ==
    /\ Running
    /\ mainPc = "listen"
    /\ mainPc' = "select"
    /\ UNCHANGED <<config, unitVars, bcastVars, lifeVars, client, m, netVars,
                   startVars, wdPc, wdHist, mainErrChan, exited, sendVars>>

(* main enters its select: the channel operands are evaluated once, here
   (main.go 127-133) *)
MainSelect ==
    /\ Running
    /\ mainPc = "select"
    /\ mainErrChan' = errChan
    /\ mainPc' = "wait"
    /\ UNCHANGED <<config, unitVars, bcastVars, lifeVars, client, m, netVars,
                   startVars, wdPc, wdHist, exited, sendVars>>

(* case mailErr := <-emailSender.errChan: log.Fatal (main.go 133-134) *)
MainRecvMailErr ==
    /\ Running
    /\ mainPc = "wait"
    /\ mainErrChan # 0
    /\ Len(chans[mainErrChan]) > 0
    /\ ProcessExit("mailFatal")

(* case serverErr := <-server.errChan: the HTTP server failed, log.Fatal
   (main.go 129-130) *)
MainRecvServerErr ==
    /\ Running
    /\ mainPc = "wait"
    /\ ProcessExit("serverFatal")

(* ---------------- tiauth.Run ---------------- *)
(* Run (app.go 109-169) starts the sender with the statements of main, so
   MainSkipInit, MainLock, MainUnlock, MainListen and MainSelect are its
   steps too.  It differs in that it returns an error instead of ending the
   process, and so runs its deferred emailSender.Close(). *)

(* why the process ended after Run returned err to main, which calls
   log.Fatal(err) (config.go 198-200) *)
RunExitCause(err) ==
    CASE err = "start" -> "runStartErr"
      [] err = "mail" -> "runMailErr"
      [] err = "server" -> "runServerErr"
      [] err = "broadcaster" -> "runBroadcasterErr"
      [] OTHER -> "runNil"

(* emailSender.Start; on an error Run unlocks and returns it, before
   emailSender.Close is deferred (app.go 111-116) *)
RunStart ==
    /\ Running
    /\ mainPc = "start"
    /\ \E fault \in ConnectFaults :
         IF fault = "ok"
         THEN /\ Start(fault)
              /\ mainPc' = "unlock"
              /\ UNCHANGED <<config, unitVars, bcastVars, quitOn, runErr, m,
                             mainErrChan, exited, sendVars>>
         ELSE ProcessExit(RunExitCause("start"))

(* case mailErr := <-app.emailSender.errChan: return mailErr
   (app.go 164-165); the deferred Close comes next *)
RunRecvMailErr ==
    /\ Running
    /\ mainPc = "wait"
    /\ mainErrChan # 0
    /\ Len(chans[mainErrChan]) > 0
    /\ chans' = [chans EXCEPT ![mainErrChan] = Tail(@)]
    /\ runErr' = "mail"
    /\ mainPc' = "closeLock"
    /\ UNCHANGED <<config, unitVars, bcastVars, stopClosed, quitOn, client, m,
                   netVars, errChan, stopChan, wdSpawned, wdPc, wdHist,
                   mainErrChan, exited, sendVars>>

(* case serverErr := <-app.httpServer.errChan: return serverErr
   (app.go 162-163) *)
RunRecvServerErr ==
    /\ Running
    /\ mainPc = "wait"
    /\ runErr' = "server"
    /\ mainPc' = "closeLock"
    /\ UNCHANGED <<config, unitVars, bcastVars, stopClosed, quitOn, client, m,
                   netVars, startVars, wdPc, wdHist, mainErrChan, exited,
                   sendVars>>

(* Close: emailSender.m.Lock() (email.go 627) *)
CloseLock ==
    /\ Running
    /\ mainPc = "closeLock"
    /\ m = Free
    /\ m' = MainProc
    /\ mainPc' = "stop"
    /\ UNCHANGED <<config, unitVars, bcastVars, lifeVars, client, netVars,
                   startVars, wdPc, wdHist, mainErrChan, exited, sendVars>>

(* StopKeepAlive (email.go 917-926): a non-blocking send on the unbuffered
   stopChan, which a goroutine parked in its select receives, and then
   close(stopChan).  A goroutine that is not parked (it waits for the mutex
   in KeepAlive, or is between two rounds of its loop) misses the send.
   On a channel that is closed already the send case of the select is
   ready and panics ("send on closed channel"), as close would after it. *)
StopKeepAlive ==
    /\ Running
    /\ mainPc = "stop"
    /\ IF stopChan # 0 /\ stopClosed
       THEN ProcessExit("panic")
       ELSE /\ IF stopChan = 0
               THEN UNCHANGED <<stopClosed, wdPc>>
               ELSE /\ stopClosed' = TRUE
                    /\ \/ \E w \in Watchdogs :
                            /\ wdPc[w] = "idle"
                            /\ wdPc' = [wdPc EXCEPT ![w] = PcAfterStop]
                       \/ UNCHANGED wdPc
            /\ mainPc' = "quit"
            /\ UNCHANGED <<config, unitVars, bcastVars, quitOn, runErr,
                           client, m, netVars, startVars, wdHist,
                           mainErrChan, exited, sendVars>>

(* Close: emailSender.client.Quit() if there is a handle (email.go 632-635).
   Quit sends QUIT and closes the connection only when the command
   succeeded; the field keeps pointing at the handle. *)
CloseQuit ==
    /\ Running
    /\ mainPc = "quit"
    /\ IF client = 0
       THEN UNCHANGED <<quitOn, open>>
       ELSE \E ok \in StepOutcomes(client) :
              IF ok
              THEN quitOn' = client /\ open' = open \ {client}
              ELSE UNCHANGED <<quitOn, open>>
    /\ mainPc' = "closeUnlock"
    /\ UNCHANGED <<config, unitVars, bcastVars, stopClosed, runErr, client, m,
                   nextHandle, dropped, startVars, wdPc, wdHist, mainErrChan,
                   exited, sendVars>>

(* Close: the deferred emailSender.m.Unlock() (email.go 628); Close has
   returned *)
CloseUnlock ==
    /\ Running
    /\ mainPc = "closeUnlock"
    /\ m' = Free
    /\ mainPc' = "closed"
    /\ UNCHANGED <<config, unitVars, bcastVars, lifeVars, client, netVars,
                   startVars, wdPc, wdHist, mainErrChan, exited, sendVars>>

(* the remaining deferred calls run, Run returns its error and main ends
   the process with log.Fatal (app.go 53, 100; config.go 198-200).  The
   Close of a broadcaster without a listener returns at once
   (token_socket.go 184-186). *)
RunReturn ==
    /\ Running
    /\ mainPc = "closed"
    /\ tbListener \in {"nil", "absent"}
    /\ ProcessExit(RunExitCause(runErr))

(* ---------------- TokenBroadcaster ---------------- *)
(* the characters of a code that matter to the encoding: a line feed, a
   backslash, a double quote and a letter; the codes are the empty one and
   one that holds them all *)
LF == "LF"
Backslash == "BS"
Quote == "QT"
Codes == {<<>>, <<LF, Backslash, "n", Quote>>}

(* json.Marshal writes a string with the line feed, the backslash and the
   double quote escaped (token_socket.go 132) *)
EscapeNothing(ch) == <<ch>>

Escape(ch) ==
    CASE ch = LF -> <<Backslash, "n">>
      [] ch = Backslash -> <<Backslash, Backslash>>
      [] ch = Quote -> <<Backslash, Quote>>
      [] OTHER -> <<ch>>

RECURSIVE EscapeString(_)
EscapeString(str) ==
    IF str = <<>> THEN <<>>
    ELSE Escape(Head(str)) \o EscapeString(Tail(str))

(* the TokenMessage a Send... method broadcasts for call c
   (token_socket.go 156-162; email.go 669) *)
TokenMessage(c) ==
    [type |-> CASE mEvent[c] = "emailUpdate" -> "email_update_verification"
                [] mEvent[c] = "passwordReset" -> "password_reset"
                [] OTHER -> "signup_verification",
     email |-> receiverEmail(c), code |-> code[c]]

(* json.Marshal of a TokenMessage: the code field is left out when it is
   empty (`omitempty`, token_socket.go 13-18, 132) *)
Marshal(msg) ==
    <<"{", "type", msg.type, "email", msg.email>>
    \o (IF msg.code = <<>> THEN <<>>
        ELSE <<"code", Quote>> \o EscapeString(msg.code) \o <<Quote>>)
    \o <<"timestamp", "ts", "}">>

(* data = append(data, '\n') (token_socket.go 137) *)
Line(msg) == Marshal(msg) \o <<LF>>

(* what a subscriber that reads lines and decodes JSON gets back *)
RECURSIVE UnescapeString(_)
UnescapeString(str) ==
    IF str = <<>> \/ Head(str) = Quote THEN <<>>
    ELSE IF Head(str) = Backslash
         THEN LET e == str[2]
                  ch == IF e = "n" THEN LF ELSE e
              IN  <<ch>> \o UnescapeString(SubSeq(str, 3, Len(str)))
         ELSE <<Head(str)>> \o UnescapeString(Tail(str))

Decode(line) ==
    [type |-> line[3], email |-> line[5],
     code |-> IF line[6] = "code"
              THEN UnescapeString(SubSeq(line, 8, Len(line)))
              ELSE <<>>]

(* the Unix socket is set up: Run returns the error of Start, and without
   a socket path Start does nothing (app.go 96-100; token_socket.go 42-68) *)
TbStart ==
    /\ Running
    /\ mainPc = "tbStart"
    /\ IF tbSocketPath = ""
       THEN /\ mainPc' = "boot"
            /\ UNCHANGED <<config, unitVars, tbVars, sockVars, acceptVars,
                           callVars, lifeVars, client, m, netVars, startVars,
                           wdPc, wdHist, mainErrChan, exited, sendVars>>
       ELSE \E ok \in BOOLEAN :
              IF ok
              THEN /\ tbListener' = "open"
                   /\ acceptPc' = "accept"
                   /\ mainPc' = "boot"
                   /\ UNCHANGED <<config, unitVars, tbSocketPath, tbStop,
                                  tbClients, sockVars, acceptConn, callVars,
                                  lifeVars, client, m, netVars, startVars,
                                  wdPc, wdHist, mainErrChan, exited,
                                  sendVars>>
              ELSE ProcessExit(RunExitCause("broadcaster"))

(* acceptLoop: a subscriber connects to the socket and
   tb.listener.Accept() returns the connection; connections are numbered
   in the order they are made (token_socket.go 73) *)
AcceptConn ==
    /\ Running
    /\ acceptPc = "accept"
    /\ tbListener = "open"
    /\ \E k \in Conns :
         /\ conn[k] = "free"
         /\ \A j \in Conns : j < k => conn[j] # "free"
         /\ conn' = [conn EXCEPT ![k] = "open"]
         /\ acceptConn' = k
    /\ acceptPc' = "add"
    /\ UNCHANGED <<config, unitVars, tbVars, handler, received, callVars,
                   lifeVars, client, m, netVars, startVars, wdPc, wdHist,
                   mainVars, sendVars>>

(* acceptLoop: Accept fails on the closed listener; the loop ends when
   stopChan is closed and goes on otherwise (token_socket.go 74-81) *)
AcceptError ==
    /\ Running
    /\ acceptPc = "accept"
    /\ tbListener = "closed"
    /\ acceptPc' = IF tbStop THEN "ended" ELSE "accept"
    /\ UNCHANGED <<config, unitVars, tbVars, sockVars, acceptConn, callVars,
                   lifeVars, client, m, netVars, startVars, wdPc, wdHist,
                   mainVars, sendVars>>

(* acceptLoop: the connection is put into the client set under the write
   lock and its handleClient goroutine is started (token_socket.go 84-91) *)
AcceptAdd ==
    /\ Running
    /\ acceptPc = "add"
    /\ tbClients' = tbClients \cup {acceptConn}
    /\ handler' = [handler EXCEPT ![acceptConn] = TRUE]
    /\ acceptPc' = "accept"
    /\ acceptConn' = 0
    /\ UNCHANGED <<config, unitVars, tbSocketPath, tbListener, tbStop, conn,
                   received, callVars, lifeVars, client, m, netVars,
                   startVars, wdPc, wdHist, mainVars, sendVars>>

(* handleClient: Read fails because the subscriber goes away or the
   connection was closed; removeClient deletes it from the set and closes
   it, and what the subscriber had read goes with it
   (token_socket.go 96-122) *)
HandleClientGone(k) ==
    /\ Running
    /\ handler[k]
    /\ conn[k] \in {"open", "closed"}
    /\ tbClients' = tbClients \ {k}
    /\ conn' = [conn EXCEPT ![k] = "closed"]
    /\ handler' = [handler EXCEPT ![k] = FALSE]
    /\ received' = [received EXCEPT ![k] = <<>>]
    /\ UNCHANGED <<config, unitVars, tbSocketPath, tbListener, tbStop,
                   acceptVars, callVars, lifeVars, client, m, netVars,
                   startVars, wdPc, wdHist, mainVars, sendVars>>

(* a request calls a Send... method that broadcasts the code it is given
   (email.go 666-670, 697-701, 732-736) *)
SendMethodCall(c) ==
    /\ Running
    /\ Serving
    /\ sendPc[c] = "idle"
    /\ \A b \in Callers : b < c => sendPc[b] # "idle"
    /\ sendPc' = [sendPc EXCEPT ![c] = "bcast"]
    /\ UNCHANGED <<config, unitVars, bcastVars, lifeVars, client, m, netVars,
                   startVars, wdPc, wdHist, mainVars, iter, mailErr, result,
                   nMail, nReconn, okAt, attemptVars>>

(* a Broadcast that marshals and copies the clients whatever the state of
   the broadcaster *)
BroadcastBeginUnguarded(c) ==
    /\ Running
    /\ sendPc[c] = "bcast"
    /\ bcSnap' = [bcSnap EXCEPT ![c] = tbClients]
    /\ bcTodo' = [bcTodo EXCEPT ![c] = tbClients]
    /\ sendPc' = [sendPc EXCEPT ![c] = "bwrite"]
    /\ bcCalls' = [bcCalls EXCEPT ![c] = @ + 1]
    /\ UNCHANGED <<config, storageVars, calcVars, lastFailed, tbVars, sockVars,
                   acceptVars, code, bcWrote, bcFailed, lifeVars, client, m,
                   netVars, startVars, wdPc, wdHist, mainVars, iter, mailErr,
                   result, nMail, nReconn, okAt, attemptVars>>

(* the method's `if emailSender.tokenBroadcaster != nil` (email.go 668,
   699, 734): a sender without a broadcaster calls nothing.  Otherwise
   Broadcast... calls Broadcast (token_socket.go 155-180): nothing to do
   without a socket path or a listener (token_socket.go 126-128);
   otherwise the message is marshalled and the client set copied under the
   read lock (token_socket.go 130-144) *)
BroadcastBegin(c) ==
    /\ Running
    /\ sendPc[c] = "bcast"
    /\ bcCalls' = IF tbListener = "absent" THEN bcCalls
                  ELSE [bcCalls EXCEPT ![c] = @ + 1]
    /\ IF tbListener \in {"absent", "nil"} \/ tbSocketPath = ""
       THEN /\ sendPc' = [sendPc EXCEPT ![c] = "render"]
            /\ UNCHANGED <<bcSnap, bcTodo>>
       ELSE /\ bcSnap' = [bcSnap EXCEPT ![c] = tbClients]
            /\ bcTodo' = [bcTodo EXCEPT ![c] = tbClients]
            /\ sendPc' = [sendPc EXCEPT ![c] = "bwrite"]
    /\ UNCHANGED <<config, storageVars, calcVars, lastFailed, tbVars, sockVars,
                   acceptVars, code, bcWrote, bcFailed, lifeVars, client, m,
                   netVars, startVars, wdPc, wdHist, mainVars, iter, mailErr,
                   result, nMail, nReconn, okAt, attemptVars>>

(* conn.Write under a deadline of five seconds: it fails on a connection
   that is closed, and on an open one it may fail because the subscriber
   is slow or gone (token_socket.go 147-148) *)
WriteOutcomes(k) == IF conn[k] = "open" THEN {TRUE, FALSE} ELSE {FALSE}

(* the client set after the write to k failed: removeClient(k)
   (token_socket.go 149-151, 115-122) *)
ClientsAfterWriteErrorCleared(clients, k) == {}

ClientsAfterWriteError(clients, k) == clients \ {k}

(* Broadcast: one round of the loop over the copied clients, in the order
   the map yields them (token_socket.go 146-152) *)
BroadcastWrite(c) ==
    /\ Running
    /\ sendPc[c] = "bwrite"
    /\ \E k \in bcTodo[c] :
         /\ bcTodo' = [bcTodo EXCEPT ![c] = @ \ {k}]
         /\ \E ok \in WriteOutcomes(k) :
              IF ok
              THEN /\ received' = [received EXCEPT
                                   ![k] = Append(@, Line(TokenMessage(c)))]
                   /\ bcWrote' = [bcWrote EXCEPT ![c] = @ \cup {k}]
                   /\ UNCHANGED <<tbClients, conn, bcFailed>>
              ELSE /\ tbClients' = ClientsAfterWriteError(tbClients, k)
                   /\ conn' = [conn EXCEPT ![k] = "closed"]
                   /\ received' = [received EXCEPT ![k] = <<>>]
                   /\ bcFailed' = [bcFailed EXCEPT ![c] = @ \cup {k}]
                   /\ UNCHANGED bcWrote
    /\ UNCHANGED <<config, unitVars, tbSocketPath, tbListener, tbStop, handler,
                   acceptVars, code, bcSnap, lifeVars, client, m, netVars,
                   startVars, wdPc, wdHist, mainVars, sendVars>>

(* where the Send... method goes on after Broadcast, which returns nothing
   (email.go 669-680) *)
PcAfterBroadcastSkipsOnFailure(failed) ==
    IF failed = {} THEN "render" ELSE "failed"

PcAfterBroadcast(failed) == "render"

(* the record of what the subscribers were sent, without call c's lines *)
ForgetLines(c) ==
    [k \in Conns |->
       SelectSeq(received[k], LAMBDA l : l # Line(TokenMessage(c)))]

(* Broadcast: the loop is over and Broadcast returns (token_socket.go 153).
   Its locals are gone with it, and the record of the lines is kept only
   for the Broadcasts that are running. *)
BroadcastEnd(c) ==
    /\ Running
    /\ sendPc[c] = "bwrite"
    /\ bcTodo[c] = {}
    /\ sendPc' = [sendPc EXCEPT ![c] = PcAfterBroadcast(bcFailed[c])]
    /\ bcSnap' = [bcSnap EXCEPT ![c] = {}]
    /\ bcWrote' = [bcWrote EXCEPT ![c] = {}]
    /\ bcFailed' = [bcFailed EXCEPT ![c] = {}]
    /\ received' = ForgetLines(c)
    /\ UNCHANGED <<config, unitVars, tbVars, conn, handler, acceptVars, code,
                   bcTodo, lifeVars, client, m, netVars, startVars, wdPc,
                   wdHist, mainVars, iter, mailErr, result, nMail, nReconn,
                   okAt, attemptVars>>

TemplateErr == <<"template", "", 0>>

(* the templates are rendered: an error is returned at once, otherwise
   SendEmailWithHTML is called (email.go 680-694) *)
SendMethodRender(c) ==
    /\ Running
    /\ sendPc[c] = "render"
    /\ \E ok \in BOOLEAN :
         IF ok
         THEN /\ sendPc' = [sendPc EXCEPT ![c] = "lock"]
              /\ UNCHANGED result
         ELSE /\ sendPc' = [sendPc EXCEPT ![c] = "failed"]
              /\ result' = [result EXCEPT ![c] = TemplateErr]
    /\ UNCHANGED <<config, unitVars, bcastVars, lifeVars, client, m, netVars,
                   startVars, wdPc, wdHist, mainVars, iter, mailErr, nMail,
                   nReconn, okAt, attemptVars>>

(* emailSender.Close, deferred by Run, on a sender that was never started:
   under the mutex there is no goroutine to stop and no client to quit
   (app.go 118; email.go 626-636) *)
CloseIdleSender ==
    /\ Running
    /\ mainPc = "closeLock"
    /\ m = Free /\ stopChan = 0 /\ client = 0
    /\ mainPc' = "closed"
    /\ UNCHANGED <<config, unitVars, bcastVars, lifeVars, client, m, netVars,
                   startVars, wdPc, wdHist, mainErrChan, exited, sendVars>>

(* tb.Close, deferred by Run: with a listener it first closes stopChan
   (app.go 100; token_socket.go 183-188) *)
TbCloseStop ==
    /\ Running
    /\ mainPc = "closed"
    /\ tbListener \notin {"nil", "absent"}
    /\ tbStop' = TRUE
    /\ mainPc' = "tbClear"
    /\ UNCHANGED <<config, unitVars, tbSocketPath, tbListener, tbClients,
                   sockVars, acceptVars, callVars, lifeVars, client, m,
                   netVars, startVars, wdPc, wdHist, mainErrChan, exited,
                   sendVars>>

(* tb.Close: under the write lock every client is closed and the set is
   replaced by an empty one (token_socket.go 190-195) *)
TbCloseClear ==
    /\ Running
    /\ mainPc = "tbClear"
    /\ conn' = [k \in Conns |-> IF k \in tbClients THEN "closed"
                                ELSE conn[k]]
    /\ received' = [k \in Conns |-> IF k \in tbClients THEN <<>>
                                    ELSE received[k]]
    /\ tbClients' = {}
    /\ mainPc' = "tbUnlisten"
    /\ UNCHANGED <<config, unitVars, tbSocketPath, tbListener, tbStop, handler,
                   acceptVars, callVars, lifeVars, client, m,
                   netVars, startVars, wdPc, wdHist, mainErrChan, exited,
                   sendVars>>

(* tb.Close: the listener is closed and Close returns
   (token_socket.go 197-204) *)
TbCloseListener ==
    /\ Running
    /\ mainPc = "tbUnlisten"
    /\ tbListener' = "closed"
    /\ mainPc' = "tbClosed"
    /\ UNCHANGED <<config, unitVars, tbSocketPath, tbStop, tbClients, sockVars,
                   acceptVars, callVars, lifeVars, client, m,
                   netVars, startVars, wdPc, wdHist, mainErrChan, exited,
                   sendVars>>

(* Run returns after the broadcaster's Close and main ends the process
   (app.go 53; config.go 198-200) *)
RunReturnClosed ==
    /\ Running
    /\ mainPc = "tbClosed"
    /\ ProcessExit(RunExitCause(runErr))

(* ---------------- the environment ---------------- *)
(* the server, or the network, drops the connection of the current handle *)
DropConnection ==
    /\ Running
    /\ Usable(client)
    /\ dropped' = dropped \cup {client}
    /\ UNCHANGED <<config, unitVars, bcastVars, lifeVars, client, m,
                   nextHandle, open, startVars, wdPc, wdHist, mainVars,
                   sendVars>>

(* ---------------- specification ---------------- *)
IdleSender ==
    /\ client = 0
    /\ m = Free
    /\ errChan = 0
    /\ stopChan = 0
    /\ chans = <<>>
    /\ nextHandle = 1
    /\ open = {}
    /\ dropped = {}
    /\ sendPc = [c \in Callers |-> "idle"]
    /\ iter = [c \in Callers |-> 0]
    /\ mailErr = [c \in Callers |-> NoErr]
    /\ result = [c \in Callers |-> NoErr]
    /\ nMail = [c \in Callers |-> 0]
    /\ nReconn = [c \in Callers |-> 0]
    /\ okAt = [c \in Callers |-> 0]
    /\ writer = [c \in Callers |-> 0]
    /\ rcpts = [c \in Callers |-> <<>>]
    /\ wdPc = [w \in Watchdogs |-> "off"]
    /\ wdSpawned = 0
    /\ probeFailed = {}
    /\ wdInstalled = {}
    /\ mainErrChan = 0
    /\ exited = "no"
    /\ stopClosed = FALSE
    /\ quitOn = 0
    /\ runErr = ""

SenderInit == config \in Configs /\ IdleSender

(* a TokenBroadcaster as NewTokenBroadcaster returns it
   (token_socket.go 32-39), or none at all *)
TbInit(path, listener) ==
    /\ tbSocketPath = path
    /\ tbListener = listener
    /\ tbStop = FALSE
    /\ tbClients = {}
    /\ conn = [k \in Conns |-> "free"]
    /\ handler = [k \in Conns |-> FALSE]
    /\ received = [k \in Conns |-> <<>>]
    /\ acceptPc = "off"
    /\ acceptConn = 0
    /\ bcSnap = [c \in Callers |-> {}]
    /\ bcTodo = [c \in Callers |-> {}]
    /\ bcWrote = [c \in Callers |-> {}]
    /\ bcFailed = [c \in Callers |-> {}]

(* no Send... method has been called, SendEmailWithHTML has composed
   nothing and createConnectedSmtpClient is not running *)
CallsIdle ==
    /\ mEvent = [c \in Callers |-> ""]
    /\ mName = [c \in Callers |-> <<>>]
    /\ mText = [c \in Callers |-> <<>>]
    /\ mHtml = [c \in Callers |-> <<>>]
    /\ mArgs = [c \in Callers |-> NoArgs]
    /\ mDate = [c \in Callers |-> <<>>]
    /\ mId = [c \in Callers |-> <<>>]
    /\ message = [c \in Callers |-> <<>>]
    /\ dialPc = "idle"
    /\ dialConn = NoConn
    /\ dialLog = <<>>
    /\ dialResult = NoResult
    /\ lastFailed = 0
    /\ bcCalls = [c \in Callers |-> 0]

CallsInit == CallsIdle /\ StorageIdle

(* a sender without templates and without a sender name; the clock is at 0 *)
PlainInit ==
    /\ templates = NilTemplates
    /\ senderName = <<>>
    /\ now = 0
    /\ CallsInit

(* main builds its sender without a tokenBroadcaster (main.go 84-87) *)
Init ==
    /\ SenderInit
    /\ mainPc = "boot"
    /\ TbInit("", "absent")
    /\ code = [c \in Callers |-> <<>>]
    /\ PlainInit

SendNext(c) ==
    \/ SendBegin(c)
    \/ SendLock(c)
    \/ SendLoopExit(c)
    \/ SendReconnect(c)
    \/ SendLazyStart(c)
    \/ SendEnter(c)
    \/ SendMail(c)
    \/ SendRcpt(c)
    \/ SendData(c)
    \/ SendWrite(c)
    \/ SendCloseWriter(c)
    \/ SendSuccess(c)
    \/ SendUnlock(c)

WdNext(w) ==
    \/ WdTick(w)
    \/ KeepAliveLock(w)
    \/ KeepAliveOk(w)
    \/ KeepAliveFail(w)
    \/ WdRecover(w)
    \/ WdReport(w)

MainNext ==
    \/ MainSkipInit
    \/ MainLock
    \/ MainStart
    \/ MainUnlock
    \/ MainListen
    \/ MainSelect
    \/ MainRecvMailErr
    \/ MainRecvServerErr

Next ==
    \/ \E c \in Callers : SendNext(c)
    \/ \E w \in Watchdogs : WdNext(w)
    \/ MainNext
    \/ DropConnection

Spec == Init /\ [][Next]_vars

(* fairness: every process that can take a step eventually takes it, and
   sync.Mutex hands the lock to a waiter that keeps finding it free.  The
   arrival of requests, timer ticks, server faults and the failure of the
   HTTP server are left to the environment. *)
SendRun(c) ==
    \/ SendLoopExit(c)
    \/ SendReconnect(c)
    \/ SendLazyStart(c)
    \/ SendEnter(c)
    \/ SendMail(c)
    \/ SendRcpt(c)
    \/ SendData(c)
    \/ SendWrite(c)
    \/ SendCloseWriter(c)
    \/ SendSuccess(c)
    \/ SendUnlock(c)

WdRun(w) ==
    \/ KeepAliveOk(w)
    \/ KeepAliveFail(w)
    \/ WdRecover(w)
    \/ WdReport(w)

MainRun ==
    \/ MainSkipInit
    \/ MainLock
    \/ MainStart
    \/ MainUnlock
    \/ MainListen
    \/ MainSelect
    \/ MainRecvMailErr

Fairness ==
    /\ \A c \in Callers : WF_vars(SendRun(c)) /\ SF_vars(SendLock(c))
    /\ \A w \in Watchdogs : WF_vars(WdRun(w)) /\ SF_vars(KeepAliveLock(w))
    /\ WF_vars(MainRun)

FairSpec == Spec /\ Fairness

(* ---------------- specification of the process started by Run -------- *)
RunNext ==
    \/ MainSkipInit
    \/ MainLock
    \/ RunStart
    \/ MainUnlock
    \/ MainListen
    \/ MainSelect
    \/ RunRecvMailErr
    \/ RunRecvServerErr
    \/ CloseLock
    \/ StopKeepAlive
    \/ CloseQuit
    \/ CloseUnlock
    \/ RunReturn

RunSystem ==
    \/ \E c \in RunCallers : SendNext(c)
    \/ \E w \in Watchdogs : WdNext(w) \/ WdStop(w)
    \/ RunNext
    \/ DropConnection

(* Run is started with transport security on (Config.InsecureSMTP unset,
   app.go 64-69; the flag only removes the STARTTLS fault) and without a
   token socket (Config.TokenSocketPath empty), so that its broadcaster
   does nothing (token_socket.go 43-46, 126-128, 184-186) *)
RunInit ==
    /\ SenderInit
    /\ mainPc = "boot"
    /\ config.security = "SMTPSecure"
    /\ TbInit("", "nil")
    /\ code = [c \in Callers |-> <<>>]
    /\ PlainInit

RunSpec == RunInit /\ [][RunSystem]_vars

(* fairness: the Send that holds the mutex, the keep-alive goroutine and
   Run go on when they can, and the mutex is eventually handed to a Send,
   to the goroutine and to Close when it keeps becoming free; the
   goroutine's select, which picks at random among its ready cases,
   eventually picks the stop case when it keeps being ready.  How long the
   process lives on after Close has returned is left open. *)
RunRun ==
    \/ MainSkipInit
    \/ MainLock
    \/ RunStart
    \/ MainUnlock
    \/ MainListen
    \/ MainSelect
    \/ RunRecvMailErr
    \/ StopKeepAlive
    \/ CloseQuit
    \/ CloseUnlock

RunFairness ==
    /\ WF_vars(\E c \in RunCallers : SendRun(c))
    /\ SF_vars(\E c \in RunCallers : SendLock(c))
    /\ WF_vars(\E w \in Watchdogs : WdRun(w))
    /\ SF_vars(\E w \in Watchdogs : KeepAliveLock(w))
    /\ SF_vars(\E w \in Watchdogs : WdStop(w))
    /\ WF_vars(RunRun)
    /\ SF_vars(CloseLock)

FairRunSpec == RunSpec /\ RunFairness

(* ---------------- specification of Run's token broadcaster ---------- *)
(* Run with or without a token socket (app.go 96), or a sender that was
   built without a broadcaster (main.go 84-87); the sender is started
   lazily and without keep-alive, a Send... call is followed up to its
   call of SendEmailWithHTML, and the code the calls of a run carry is
   drawn from Codes *)
BroadcastInit ==
    /\ SenderInit
    /\ config.noSmtpInit /\ config.disableKeepAlive
    /\ config.security = "SMTPSecure"
    /\ \/ mainPc = "tbStart" /\ \E path \in {"", "sock"} : TbInit(path, "nil")
       \/ mainPc = "boot" /\ TbInit("", "absent")
    /\ \E cd \in Codes : code = [c \in Callers |-> cd]
    /\ PlainInit

BroadcastStep(c) ==
    \/ BroadcastBegin(c)
    \/ BroadcastWrite(c)
    \/ BroadcastEnd(c)

BroadcastNext ==
    \/ TbStart
    \/ MainSkipInit
    \/ MainListen
    \/ MainSelect
    \/ RunRecvServerErr
    \/ CloseIdleSender
    \/ RunReturn
    \/ TbCloseStop
    \/ TbCloseClear
    \/ TbCloseListener
    \/ RunReturnClosed
    \/ AcceptConn
    \/ AcceptError
    \/ AcceptAdd
    \/ \E k \in Conns : HandleClientGone(k)
    \/ \E c \in RunCallers :
         SendMethodCall(c) \/ BroadcastStep(c) \/ SendMethodRender(c)

BroadcastSpec == BroadcastInit /\ [][BroadcastNext]_vars

(* the part of that fairness that concerns the holders of the mutex and
   the keep-alive goroutine: it says nothing about a Send or Close ever
   being handed the mutex *)
StopFairness ==
    /\ WF_vars(\E c \in RunCallers : SendRun(c))
    /\ WF_vars(\E w \in Watchdogs : WdRun(w))
    /\ SF_vars(\E w \in Watchdogs : KeepAliveLock(w))
    /\ SF_vars(\E w \in Watchdogs : WdStop(w))
    /\ WF_vars(StopKeepAlive \/ CloseQuit \/ CloseUnlock)

FairStopSpec == RunSpec /\ StopFairness

(* ---------------- the Send... methods ---------------- *)
(* Strings are sequences of tokens: a token is one character, or a run of
   characters of the source that no step ever takes apart. *)
Space == " "
Events == {"signup", "emailUpdate", "passwordReset", "signin",
           "passwordUpdated", "emailUpdated"}

(* subject of each Send... method (email.go 672, 703, 737, 771, 803, 835) *)
Subject(e) ==
    CASE e = "signup" -> "Signup verification code"
      [] e = "emailUpdate" -> "Email update verification code"
      [] e = "passwordReset" -> "Password reset temporary password"
      [] e = "signin" -> "Sign-in detected"
      [] e = "passwordUpdated" -> "Password updated"
      [] e = "emailUpdated" -> "Email updated"

(* the template names of each method (email.go 680, 684, ...) *)
TextName(e) ==
    CASE e = "signup" -> "signup_verification.txt"
      [] e = "emailUpdate" -> "email_update_verification.txt"
      [] e = "passwordReset" -> "password_reset.txt"
      [] e = "signin" -> "signin_notification.txt"
      [] e = "passwordUpdated" -> "password_updated_notification.txt"
      [] e = "emailUpdated" -> "email_updated_notification.txt"

HtmlName(e) ==
    CASE e = "signup" -> "signup_verification.html"
      [] e = "emailUpdate" -> "email_update_verification.html"
      [] e = "passwordReset" -> "password_reset.html"
      [] e = "signin" -> "signin_notification.html"
      [] e = "passwordUpdated" -> "password_updated_notification.html"
      [] e = "emailUpdated" -> "email_updated_notification.html"

TemplateNames == {TextName(e) : e \in Events} \cup {HtmlName(e) : e \in Events}

(* the keys of the data map of each method (email.go 674-677, 705-710, ...) *)
DataKeys(e) ==
    CASE e = "signup" -> {"EmailAddress", "VerificationCode"}
      [] e = "emailUpdate" ->
           {"EmailAddress", "DisplayName", "VerificationCode", "Greeting"}
      [] e = "passwordReset" ->
           {"EmailAddress", "DisplayName", "TemporaryPassword", "Greeting"}
      [] e = "signin" -> {"EmailAddress", "DisplayName", "Time", "Greeting"}
      [] e = "passwordUpdated" ->
           {"EmailAddress", "DisplayName", "Time", "Greeting"}
      [] e = "emailUpdated" ->
           {"EmailAddress", "DisplayName", "NewEmailAddress", "Time",
            "Greeting"}

(* the methods that carry a code or a temporary password *)
SecretEvents == {"signup", "emailUpdate", "passwordReset"}

(* the name the signup method passes to SendEmailWithHTML is "" (email.go
   694), the others pass displayName *)
RecipientName(e, displayName) == IF e = "signup" THEN <<>> ELSE displayName

(* makeGreeting (email.go 638-644) *)
makeGreeting(displayName) ==
    IF displayName # <<>> THEN <<"Dear ">> \o displayName \o <<",">>
    ELSE <<"Hello,">>

(* the second an instant of the clock lies in *)
Second(t) == t \div TicksPerSecond

(* time.UTC().Format("January 2, 2006 15:04:05") has the resolution of a
   second *)
FormatTime(t) == <<"second", ToString(Second(t))>>

EmailAddress == <<"a", "@", "x">>
NewEmailAddress == <<"b", "@", "x">>

(* the hardcoded message of each method (email.go 690, 722-724, 756-758,
   788-790, 820-822, 853-855) *)
FallbackBody(e, displayName, secret, t) ==
    CASE e = "signup" ->
           <<"Your email address verification code is", Space>> \o secret
             \o <<".">>
      [] e = "emailUpdate" ->
           makeGreeting(displayName) \o <<LF, LF>>
             \o <<"You have made a request to update your email.", Space,
                  "Your verification code is", Space>> \o secret \o <<".">>
      [] e = "passwordReset" ->
           makeGreeting(displayName) \o <<LF, LF>>
             \o <<"Your password reset temporary password is", Space>>
             \o secret \o <<".">>
      [] e = "signin" ->
           makeGreeting(displayName) \o <<LF, LF>>
             \o <<"We detected a sign-in to your account at", Space>>
             \o FormatTime(t) \o <<Space, "(UTC).">>
      [] e = "passwordUpdated" ->
           makeGreeting(displayName) \o <<LF, LF>>
             \o <<"Your account password was updated at", Space>>
             \o FormatTime(t) \o <<Space, "(UTC).">>
      [] e = "emailUpdated" ->
           makeGreeting(displayName) \o <<LF, LF>>
             \o <<"Your account email address was updated to", Space>>
             \o NewEmailAddress \o <<Space, "at", Space>> \o FormatTime(t)
             \o <<Space, "(UTC).">>

(* What a template file holds:
     "static"   Welcome
     "greeting" {{if .DisplayName}}Dear {{.DisplayName}}{{end}}
     "broken"   {{.EmailAddress.Domain}}
   Execute on the data map of a method (email.go 657-661): a key the map
   lacks is the zero value in an if; a field of a string cannot be
   evaluated and ends the execution with an error. *)
TemplateKinds == {"static", "greeting", "broken"}

Execute(kind, e, displayName) ==
    CASE kind = "static" -> [text |-> <<"Welcome">>, ok |-> TRUE]
      [] kind = "greeting" ->
           [text |-> IF "DisplayName" \in DataKeys(e) /\ displayName # <<>>
                     THEN <<"Dear ">> \o displayName
                     ELSE <<>>,
            ok |-> TRUE]
      [] kind = "broken" -> [text |-> <<>>, ok |-> FALSE]

(* the tables loadEmailTemplates can build (email.go 392-429): nil without
   a directory, otherwise one template per .txt and .html file of the
   directory, under the file's base name; here the directory holds files
   for at most one method *)
TemplateTables ==
    {NilTemplates} \cup
    {[isNil |-> FALSE,
      named |-> [n \in TemplateNames |->
                   IF n = TextName(e) THEN kt
                   ELSE IF n = HtmlName(e) THEN kh ELSE "absent"]] :
       e \in Events, kt \in TemplateKinds \cup {"absent"},
       kh \in TemplateKinds \cup {"absent"}}

RenderErr(templateName) == <<"render", templateName, 0>>

(* renderTemplate (email.go 646-664): the text and the error *)
renderTemplateSwallowsError(table, templateName, e, displayName) ==
    IF table.isNil THEN [text |-> <<>>, err |-> NoErr]
    ELSE IF table.named[templateName] = "absent"
         THEN [text |-> <<>>, err |-> NoErr]
         ELSE [text |-> Execute(table.named[templateName], e,
                                displayName).text,
               err |-> NoErr]

renderTemplate(table, templateName, e, displayName) ==
    IF table.isNil THEN [text |-> <<>>, err |-> NoErr]
    ELSE IF table.named[templateName] = "absent"
         THEN [text |-> <<>>, err |-> NoErr]
         ELSE IF ~Execute(table.named[templateName], e, displayName).ok
              THEN [text |-> <<>>, err |-> RenderErr(templateName)]
              ELSE [text |-> Execute(table.named[templateName], e,
                                     displayName).text,
                    err |-> NoErr]

DisplayNames == {<<>>, <<"A", "n", "n">>}
VerificationCodes == {<<"7", "K">>, <<"4", "-", "2">>}

(* a Send... method is called on a sender without a tokenBroadcaster: its
   subject and data are set up (email.go 666-677) *)
MethodCall(c) ==
    /\ Running
    /\ sendPc[c] = "idle"
    /\ \E e \in Events, n \in DisplayNames :
         /\ mEvent' = [mEvent EXCEPT ![c] = e]
         /\ mName' = [mName EXCEPT ![c] = IF e = "signup" THEN <<>> ELSE n]
    /\ sendPc' = [sendPc EXCEPT ![c] = "rtext"]
    /\ UNCHANGED <<config, storageVars, histVars, templates, senderName, now,
                   mText, mHtml, composeVars, dialVars, bcastVars, lifeVars,
                   client, m, netVars, startVars, wdPc, wdHist, mainVars, iter,
                   mailErr, result, nMail, nReconn, okAt, attemptVars>>

(* textBody, err := renderTemplate(<name>.txt, data); if err != nil return
   err (email.go 680-683) *)
RenderText(c) ==
    /\ Running
    /\ sendPc[c] = "rtext"
    /\ LET r == renderTemplate(templates, TextName(mEvent[c]), mEvent[c],
                               mName[c])
       IN  IF r.err # NoErr
           THEN /\ sendPc' = [sendPc EXCEPT ![c] = "failed"]
                /\ result' = [result EXCEPT ![c] = r.err]
                /\ UNCHANGED mText
           ELSE /\ sendPc' = [sendPc EXCEPT ![c] = "rhtml"]
                /\ mText' = [mText EXCEPT ![c] = r.text]
                /\ UNCHANGED result
    /\ UNCHANGED <<config, storageVars, histVars, templates, senderName, now,
                   mEvent, mName, mHtml, composeVars, dialVars, bcastVars,
                   lifeVars, client, m, netVars, startVars, wdPc, wdHist,
                   mainVars, iter, mailErr, nMail, nReconn, okAt, attemptVars>>

(* htmlBody, err := renderTemplate(<name>.html, data); if err != nil return
   err (email.go 684-687) *)
RenderHtml(c) ==
    /\ Running
    /\ sendPc[c] = "rhtml"
    /\ LET r == renderTemplate(templates, HtmlName(mEvent[c]), mEvent[c],
                               mName[c])
       IN  IF r.err # NoErr
           THEN /\ sendPc' = [sendPc EXCEPT ![c] = "failed"]
                /\ result' = [result EXCEPT ![c] = r.err]
                /\ UNCHANGED mHtml
           ELSE /\ sendPc' = [sendPc EXCEPT ![c] = "fallback"]
                /\ mHtml' = [mHtml EXCEPT ![c] = r.text]
                /\ UNCHANGED result
    /\ UNCHANGED <<config, storageVars, histVars, templates, senderName, now,
                   mEvent, mName, mText, composeVars, dialVars, bcastVars,
                   lifeVars, client, m, netVars, startVars, wdPc, wdHist,
                   mainVars, iter, mailErr, nMail, nReconn, okAt, attemptVars>>

(* the arguments of SendEmailWithHTML *)
Args(name, address, subject, textBody, htmlBody) ==
    [recipientName |-> name, recipientEmailAddress |-> address,
     subject |-> subject, textBody |-> textBody, htmlBody |-> htmlBody]

(* a method that passes the rendering on as it is *)
MethodPassesRendering(c) ==
    /\ Running
    /\ sendPc[c] = "fallback"
    /\ mArgs' = [mArgs EXCEPT ![c] =
                    Args(RecipientName(mEvent[c], mName[c]), EmailAddress,
                         <<Subject(mEvent[c])>>, mText[c], mHtml[c])]
    /\ sendPc' = [sendPc EXCEPT ![c] = "args"]
    /\ UNCHANGED <<config, storageVars, histVars, templates, senderName, now,
                   renderVars, mDate, mId, message, dialVars, bcastVars,
                   lifeVars, client, m, netVars, startVars, wdPc, wdHist,
                   mainVars, iter, mailErr, result, nMail, nReconn, okAt,
                   attemptVars>>

(* if textBody == "" the hardcoded message is used; SendEmailWithHTML is
   called (email.go 689-694) *)
MethodFallback(c) ==
    /\ Running
    /\ sendPc[c] = "fallback"
    /\ LET e == mEvent[c]
           textBody == IF mText[c] = <<>>
                       THEN FallbackBody(e, mName[c], code[c], now)
                       ELSE mText[c]
       IN  mArgs' = [mArgs EXCEPT ![c] =
                       Args(RecipientName(e, mName[c]), EmailAddress,
                            <<Subject(e)>>, textBody, mHtml[c])]
    /\ sendPc' = [sendPc EXCEPT ![c] = "args"]
    /\ UNCHANGED <<config, storageVars, histVars, templates, senderName, now,
                   renderVars, mDate, mId, message, dialVars, bcastVars,
                   lifeVars, client, m, netVars, startVars, wdPc, wdHist,
                   mainVars, iter, mailErr, result, nMail, nReconn, okAt,
                   attemptVars>>

(* the method has returned its error, or has handed its arguments to
   SendEmailWithHTML: its locals are gone *)
MethodReturn(c) ==
    /\ Running
    /\ sendPc[c] \in {"failed", "args"}
    /\ sendPc' = [sendPc EXCEPT ![c] = "idle"]
    /\ result' = [result EXCEPT ![c] = NoErr]
    /\ mEvent' = [mEvent EXCEPT ![c] = ""]
    /\ mName' = [mName EXCEPT ![c] = <<>>]
    /\ mText' = [mText EXCEPT ![c] = <<>>]
    /\ mHtml' = [mHtml EXCEPT ![c] = <<>>]
    /\ mArgs' = [mArgs EXCEPT ![c] = NoArgs]
    /\ UNCHANGED <<config, storageVars, histVars, templates, senderName, now,
                   mDate, mId, message, dialVars, bcastVars, lifeVars, client,
                   m, netVars, startVars, wdPc, wdHist, mainVars, iter,
                   mailErr, nMail, nReconn, okAt, attemptVars>>

(* a sender built by newSmtpEmailSender whose methods are called while the
   program serves: no tokenBroadcaster, no connection yet *)
UnitInit ==
    /\ SenderInit
    /\ config.noSmtpInit /\ config.disableKeepAlive
    /\ config.security = "SMTPSecure"
    /\ mainPc = "select"
    /\ TbInit("", "absent")

(* the Send... methods up to their call of SendEmailWithHTML, on every
   table of templates and with every code of VerificationCodes *)
RenderInit ==
    /\ UnitInit
    /\ templates \in TemplateTables
    /\ senderName = <<>>
    /\ now = 0
    /\ CallsInit
    /\ \E cd \in VerificationCodes : code = [c \in Callers |-> cd]

RenderNext ==
    \E c \in RunCallers :
        \/ MethodCall(c)
        \/ RenderText(c)
        \/ RenderHtml(c)
        \/ MethodFallback(c)
        \/ MethodReturn(c)

RenderSpec == RenderInit /\ [][RenderNext]_vars

(* ---------------- the test mail server ---------------- *)
WordChars == {"7", "K", "4", "2", "A", "n"}
Whitespace == {Space, LF}

(* the end of the longest run of tokens of S in body that starts at i; i - 1
   if there is none *)
RunEnd(body, i, S) ==
    IF i > Len(body) \/ body[i] \notin S THEN i - 1
    ELSE CHOOSE j \in i..Len(body) :
           /\ \A k \in i..j : body[k] \in S
           /\ j = Len(body) \/ body[j + 1] \notin S

(* extractData for the subject "Signup verification code": the match of
   /Your email address verification code is\s+(\w+)/ (smtp-server.ts
   44-50); <<>> when nothing matches *)
ExtractCode(subject, body) ==
    LET starts ==
          {i \in 1..Len(body) :
             /\ body[i] = "Your email address verification code is"
             /\ RunEnd(body, i + 1, Whitespace) >= i + 1
             /\ RunEnd(body, RunEnd(body, i + 1, Whitespace) + 1, WordChars)
                  > RunEnd(body, i + 1, Whitespace)}
    IN  IF subject # <<"Signup verification code">> \/ starts = {} THEN <<>>
        ELSE LET i == CHOOSE x \in starts : \A y \in starts : x <= y
                 w == RunEnd(body, i + 1, Whitespace)
             IN  SubSeq(body, w + 1, RunEnd(body, w + 1, WordChars))

(* sub occurs in s, token for token *)
Contains(s, sub) ==
    \E i \in 1..(Len(s) - Len(sub) + 1) :
        SubSeq(s, i, i + Len(sub) - 1) = sub

(* ---------------- createConnectedSmtpClient, step by step ------------- *)
(* every value an SMTPSecurity can hold: the two named ones and one other *)
SecurityValues == {"SMTPSecure", "SMTPInsecureDangerous", "SMTPSecurity(2)"}

(* the zero value of SMTPSecurity is the first constant of the iota block
   (email.go 348-351) *)
ZeroSecurity == "SMTPSecure"

ConnectConfigs ==
    [noSmtpInit : {TRUE}, disableKeepAlive : {TRUE},
     security : SecurityValues, auth : BOOLEAN]

(* conn.LocalAddr().String(): host and port of the local end, the host of an
   IPv6 address in brackets *)
LocalAddrs == {<<"10.0.0.5", ":", "40000">>, <<"[", "::1", "]", ":", "40001">>}

(* net.SplitHostPort: the host part (email.go 447-448) *)
SplitHostPort(addr) == IF addr[1] = "[" THEN addr[2] ELSE addr[1]

ConnectErr(step) == <<"connect", step, 0>>

(* the step that follows a step that succeeded (email.go 441-471) *)
NextStepAuthFirst(step) ==
    CASE step = "dial" -> "newClient"
      [] step = "newClient" -> "hello"
      [] step = "hello" ->
           IF config.auth THEN "auth"
           ELSE IF EnableSecurity(config.security) THEN "tls" ELSE "done"
      [] step = "auth" ->
           IF EnableSecurity(config.security) THEN "tls" ELSE "done"
      [] step = "tls" -> "done"

NextStep(step) ==
    CASE step = "dial" -> "newClient"
      [] step = "newClient" -> "hello"
      [] step = "hello" ->
           IF EnableSecurity(config.security) THEN "tls"
           ELSE IF config.auth THEN "auth" ELSE "done"
      [] step = "tls" -> IF config.auth THEN "auth" ELSE "done"
      [] step = "auth" -> "done"

(* a step has succeeded: the next one is due, or the client is returned *)
StepOk(step, dialed) ==
    /\ dialPc' = NextStep(step)
    /\ dialResult' = IF NextStep(step) = "done"
                     THEN [client |-> dialed.h, err |-> NoErr]
                     ELSE dialResult

(* a step has failed: nil and the error are returned *)
StepFailed(step) ==
    /\ dialPc' = "done"
    /\ dialResult' = [client |-> 0, err |-> ConnectErr(step)]

(* createConnectedSmtpClient is called *)
ConnectCall ==
    /\ Running
    /\ dialPc = "idle"
    /\ dialPc' = "dial"
    /\ UNCHANGED <<config, storageVars, histVars, templates, senderName, now,
                   renderVars, composeVars, dialConn, dialLog, dialResult,
                   bcastVars, lifeVars, client, m, netVars, startVars, wdPc,
                   wdHist, mainVars, sendVars>>

(* net.Dial (email.go 435-438) *)
ConnectDial ==
    /\ Running
    /\ dialPc = "dial"
    /\ dialLog' = Append(dialLog, <<"dial">>)
    /\ \/ /\ nextHandle <= MaxHandles
          /\ \E a \in LocalAddrs :
               /\ dialConn' = [h |-> nextHandle, localAddr |-> a,
                               tls |-> FALSE]
               /\ StepOk("dial", dialConn')
          /\ open' = open \cup {nextHandle}
          /\ nextHandle' = nextHandle + 1
       \/ /\ StepFailed("dial")
          /\ UNCHANGED <<dialConn, open, nextHandle>>
    /\ UNCHANGED <<config, storageVars, histVars, templates, senderName, now,
                   renderVars, composeVars, bcastVars, lifeVars, client, m,
                   dropped, startVars, wdPc, wdHist, mainVars, sendVars>>

(* smtp.NewClient reads the server's greeting; when that fails it closes
   the connection before it returns the error, and the function returns
   (email.go 440-443) *)
ConnectNewClient ==
    /\ Running
    /\ dialPc = "newClient"
    /\ dialLog' = Append(dialLog, <<"newClient">>)
    /\ \/ /\ StepOk("newClient", dialConn)
          /\ UNCHANGED open
       \/ /\ StepFailed("newClient")
          /\ open' = open \ {dialConn.h}
    /\ UNCHANGED <<config, storageVars, histVars, templates, senderName, now,
                   renderVars, composeVars, dialConn, bcastVars, lifeVars,
                   client, m, nextHandle, dropped, startVars, wdPc, wdHist,
                   mainVars, sendVars>>

(* client.Hello with the host of the connection's local address; on failure
   the connection stays open (email.go 445-451) *)
ConnectHello ==
    /\ Running
    /\ dialPc = "hello"
    /\ dialLog' = Append(dialLog,
                         <<"hello", SplitHostPort(dialConn.localAddr)>>)
    /\ StepOk("hello", dialConn) \/ StepFailed("hello")
    /\ UNCHANGED <<config, storageVars, histVars, templates, senderName, now,
                   renderVars, composeVars, dialConn, bcastVars, lifeVars,
                   client, m, netVars, startVars, wdPc, wdHist, mainVars,
                   sendVars>>

(* client.StartTLS; on failure client.Close() closes the connection
   (email.go 453-460) *)
ConnectStartTLS ==
    /\ Running
    /\ dialPc = "tls"
    /\ dialLog' = Append(dialLog, <<"tls">>)
    /\ \/ /\ dialConn' = [dialConn EXCEPT !.tls = TRUE]
          /\ StepOk("tls", dialConn)
          /\ UNCHANGED open
       \/ /\ StepFailed("tls")
          /\ open' = open \ {dialConn.h}
          /\ UNCHANGED dialConn
    /\ UNCHANGED <<config, storageVars, histVars, templates, senderName, now,
                   renderVars, composeVars, bcastVars, lifeVars, client, m,
                   nextHandle, dropped, startVars, wdPc, wdHist, mainVars,
                   sendVars>>

(* client.Auth; on failure client.Close() closes the connection (email.go
   465-470) *)
ConnectAuth ==
    /\ Running
    /\ dialPc = "auth"
    /\ dialLog' = Append(dialLog, <<"auth">>)
    /\ \/ /\ StepOk("auth", dialConn)
          /\ UNCHANGED open
       \/ /\ StepFailed("auth")
          /\ open' = open \ {dialConn.h}
    /\ UNCHANGED <<config, storageVars, histVars, templates, senderName, now,
                   renderVars, composeVars, dialConn, bcastVars, lifeVars,
                   client, m, nextHandle, dropped, startVars, wdPc, wdHist,
                   mainVars, sendVars>>

(* the caller has the result; the locals of the call are gone *)
ConnectReturn ==
    /\ Running
    /\ dialPc = "done"
    /\ dialPc' = "idle"
    /\ dialConn' = NoConn
    /\ dialLog' = <<>>
    /\ dialResult' = NoResult
    /\ UNCHANGED <<config, storageVars, histVars, templates, senderName, now,
                   renderVars, composeVars, bcastVars, lifeVars, client, m,
                   netVars, startVars, wdPc, wdHist, mainVars, sendVars>>

(* createConnectedSmtpClient under every security value, with and without
   a credential *)
ConnectInit ==
    /\ config \in ConnectConfigs
    /\ IdleSender
    /\ mainPc = "select"
    /\ TbInit("", "absent")
    /\ code = [c \in Callers |-> <<>>]
    /\ PlainInit

ConnectNext ==
    \/ ConnectCall
    \/ ConnectDial
    \/ ConnectNewClient
    \/ ConnectHello
    \/ ConnectStartTLS
    \/ ConnectAuth
    \/ ConnectReturn

ConnectSpec == ConnectInit /\ [][ConnectNext]_vars

(* ---------------- the message SendEmailWithHTML composes -------------- *)
CRLF == "CRLF"

(* config.senderEmail and config.domain *)
SenderEmail == <<"s", "@", "x">>
Domain == <<"x">>

(* time.Now().Format(time.RFC1123Z) has the resolution of a second (email.go
   513) *)
RFC1123Z(t) == <<"date", ToString(Second(t))>>

(* fmt.Sprintf("%s <%s>", name, address), or the address alone for an empty
   name (email.go 501-511) *)
Mailbox(name, address) ==
    IF name # <<>> THEN name \o <<Space, "<">> \o address \o <<">">>
    ELSE address

(* sha256 of a string: collision-free, so the string itself stands for it *)
Hash(input) == <<"sha256(">> \o input \o <<")">>

(* generateMessageID (email.go 474-482) *)
generateMessageID(sender, receiver, body, time, domain) ==
    <<"<">>
      \o Hash(sender \o <<"|">> \o receiver \o <<"|">> \o body \o <<"|">>
                \o time)
      \o <<"@">> \o domain \o <<">">>

(* generateBoundary (email.go 485-489): 16 random bytes in hex *)
Boundaries == {<<"boundary_", "1f">>}

(* strings.Join(headers, "\r\n") *)
RECURSIVE Join(_)
Join(lines) ==
    IF lines = <<>> THEN <<>>
    ELSE IF Len(lines) = 1 THEN lines[1]
    ELSE lines[1] \o <<CRLF>> \o Join(Tail(lines))

(* the headers of both forms of the message (email.go 520-528, 555-563) *)
HeadersWithoutDate(from, to, subject, date, messageId, contentType) ==
    << <<"From: ">> \o from,
       <<"To: ">> \o to,
       <<"Subject: ">> \o subject,
       <<"Message-ID: ">> \o messageId,
       <<"MIME-Version: ", "1.0">>,
       <<"Content-Type: ">> \o contentType >>

Headers(from, to, subject, date, messageId, contentType) ==
    << <<"From: ">> \o from,
       <<"To: ">> \o to,
       <<"Subject: ">> \o subject,
       <<"Date: ">> \o date,
       <<"Message-ID: ">> \o messageId,
       <<"MIME-Version: ", "1.0">>,
       <<"Content-Type: ">> \o contentType >>

(* what multipart.Writer writes for the two parts and on Close (email.go
   534-550) *)
MultipartBody(boundary, body, htmlBody) ==
    <<"--">> \o boundary \o <<CRLF>>
      \o <<"Content-Type: ", "text/plain; charset=UTF-8", CRLF, CRLF>>
      \o body
      \o <<CRLF, "--">> \o boundary \o <<CRLF>>
      \o <<"Content-Type: ", "text/html; charset=UTF-8", CRLF, CRLF>>
      \o htmlBody
      \o <<CRLF, "--">> \o boundary \o <<"--", CRLF>>

(* message of SendEmailWithHTML (email.go 498-567) *)
ComposeMessage(args, date, messageId, boundary) ==
    LET from == Mailbox(senderName, SenderEmail)
        to == Mailbox(args.recipientName, args.recipientEmailAddress)
    IN  IF args.htmlBody # <<>>
        THEN Join(Headers(from, to, args.subject, date, messageId,
                          <<"multipart/alternative; boundary=", "\"">>
                            \o boundary \o <<"\"">>))
               \o <<CRLF, CRLF>>
               \o MultipartBody(boundary, args.textBody, args.htmlBody)
        ELSE Join(Headers(from, to, args.subject, date, messageId,
                          <<"text/plain; charset=UTF-8">>))
               \o <<CRLF, CRLF>> \o args.textBody

(* the arguments the calls are made with: an empty name, a plain name and a
   name holding a line break; recipients and bodies with and without the
   character "|"; with and without an HTML body *)
RecipientNames ==
    {<<>>, <<"A", "n", "n">>, <<"x", CRLF, "Message-ID: ", "<forged>">>}
RecipientsAndBodies ==
    {<<<<"a">>, <<"b", "|", "c">>>>, <<<<"a", "|", "b">>, <<"c">>>>}
HtmlBodies == {<<>>, <<"<p>c</p>">>}

(* SendEmailWithHTML is called *)
DirectCall(c) ==
    /\ Running
    /\ sendPc[c] = "idle"
    /\ \E n \in RecipientNames, rb \in RecipientsAndBodies,
          h \in HtmlBodies :
         mArgs' = [mArgs EXCEPT ![c] = Args(n, rb[1], <<"Hi">>, rb[2], h)]
    /\ sendPc' = [sendPc EXCEPT ![c] = "args"]
    /\ UNCHANGED <<config, storageVars, histVars, templates, senderName, now,
                   renderVars, mDate, mId, message, dialVars, bcastVars,
                   lifeVars, client, m, netVars, startVars, wdPc, wdHist,
                   mainVars, iter, mailErr, result, nMail, nReconn, okAt,
                   attemptVars>>

(* a SendEmailWithHTML that takes the mutex first and composes under it *)
ComposeUnderMutex(c) ==
    /\ Running
    /\ sendPc[c] = "args"
    /\ m = Free
    /\ m' = SendProc(c)
    /\ LET date == RFC1123Z(now)
           messageId == generateMessageID(SenderEmail,
                                          mArgs[c].recipientEmailAddress,
                                          mArgs[c].textBody, date, Domain)
       IN  /\ mDate' = [mDate EXCEPT ![c] = date]
           /\ mId' = [mId EXCEPT ![c] = messageId]
           /\ \E b \in Boundaries :
                message' = [message EXCEPT ![c] =
                              ComposeMessage(mArgs[c], date, messageId, b)]
    /\ sendPc' = [sendPc EXCEPT ![c] = "top"]
    /\ UNCHANGED <<config, storageVars, histVars, templates, senderName, now,
                   renderVars, mArgs, dialVars, bcastVars, lifeVars, client,
                   netVars, startVars, wdPc, wdHist, mainVars, iter, mailErr,
                   result, nMail, nReconn, okAt, attemptVars>>

(* the headers, the date, the Message-ID and the message are made; next is
   m.Lock() (email.go 499-567) *)
Compose(c) ==
    /\ Running
    /\ sendPc[c] = "args"
    /\ LET date == RFC1123Z(now)
           messageId == generateMessageID(SenderEmail,
                                          mArgs[c].recipientEmailAddress,
                                          mArgs[c].textBody, date, Domain)
       IN  /\ mDate' = [mDate EXCEPT ![c] = date]
           /\ mId' = [mId EXCEPT ![c] = messageId]
           /\ \E b \in Boundaries :
                message' = [message EXCEPT ![c] =
                              ComposeMessage(mArgs[c], date, messageId, b)]
    /\ sendPc' = [sendPc EXCEPT ![c] = "lock"]
    /\ UNCHANGED <<config, storageVars, histVars, templates, senderName, now,
                   renderVars, mArgs, dialVars, bcastVars, lifeVars, client, m,
                   netVars, startVars, wdPc, wdHist, mainVars, iter, mailErr,
                   result, nMail, nReconn, okAt, attemptVars>>

(* the call has run to its end: its locals are gone *)
ComposeReturn(c) ==
    /\ Running
    /\ sendPc[c] = "lock"
    /\ sendPc' = [sendPc EXCEPT ![c] = "idle"]
    /\ mArgs' = [mArgs EXCEPT ![c] = NoArgs]
    /\ mDate' = [mDate EXCEPT ![c] = <<>>]
    /\ mId' = [mId EXCEPT ![c] = <<>>]
    /\ message' = [message EXCEPT ![c] = <<>>]
    /\ UNCHANGED <<config, storageVars, histVars, templates, senderName, now,
                   renderVars, dialVars, bcastVars, lifeVars, client, m,
                   netVars, startVars, wdPc, wdHist, mainVars, iter, mailErr,
                   result, nMail, nReconn, okAt, attemptVars>>

(* time passes *)
Tick ==
    /\ Running
    /\ now < MaxNow
    /\ now' = now + 1
    /\ UNCHANGED <<config, storageVars, histVars, templates, senderName,
                   renderVars, composeVars, dialVars, bcastVars, lifeVars,
                   client, m, netVars, startVars, wdPc, wdHist, mainVars,
                   sendVars>>

(* calls of SendEmailWithHTML up to its m.Lock(), on a sender with and
   without a sender name, while time passes *)
ComposeInit ==
    /\ UnitInit
    /\ templates = NilTemplates
    /\ senderName \in {<<>>, <<"F", "a", "r", "o", "e">>}
    /\ now = 0
    /\ CallsInit
    /\ code = [c \in Callers |-> <<>>]

ComposeNext ==
    \/ Tick
    \/ \E c \in Callers : DirectCall(c) \/ Compose(c) \/ ComposeReturn(c)

ComposeSpec == ComposeInit /\ [][ComposeNext]_vars

(* ---------------- the earlier keep-alive implementation --------------- *)
(* The earlier SendEmail (email.go 117-195) is the loop of the Send actions
   above without the lazy Start: the sender of that version is built with
   its connection. *)

(* main of that version: newSmtpEmailSender connects, log.Fatal on an
   error; StartKeepAliveRoutine starts the goroutine; the server listens
   (main.go 212-250; email.go 93-104, 273-301) *)
EarlierBoot ==
    /\ Running
    /\ mainPc = "boot"
    /\ \E fault \in ConnectFaults :
         LET r == createConnectedSmtpClient(fault)
         IN  IF fault = "ok"
             THEN /\ client' = r.client
                  /\ nextHandle' = r.next
                  /\ open' = r.open
                  /\ wdPc' = [wdPc EXCEPT ![1] = "idle"]
                  /\ wdSpawned' = 1
                  /\ mainPc' = "select"
                  /\ UNCHANGED <<config, unitVars, bcastVars, lifeVars, m,
                                 dropped, errChan, stopChan, chans, wdHist,
                                 mainErrChan, exited, sendVars>>
             ELSE ProcessExit("startFatal")

(* ticker.C fires: the goroutine calls KeepAlive (email.go 283-284) *)
EarlierTick(w) ==
    /\ Running
    /\ wdPc[w] = "idle"
    /\ wdPc' = [wdPc EXCEPT ![w] = "lock"]
    /\ UNCHANGED <<config, unitVars, bcastVars, lifeVars, client, m, netVars,
                   startVars, wdHist, mainVars, sendVars>>

(* emailSender.m.Lock() of KeepAlive (email.go 262) *)
EarlierKeepAliveLock(w) ==
    /\ Running
    /\ wdPc[w] = "lock"
    /\ m = Free
    /\ m' = WdProc(w)
    /\ wdPc' = [wdPc EXCEPT ![w] = "probe"]
    /\ UNCHANGED <<config, unitVars, bcastVars, lifeVars, client, netVars,
                   startVars, wdHist, mainVars, sendVars>>

(* the Noop of KeepAlive and its return: the deferred Unlock runs whether
   the probe failed or not (email.go 263-270) *)
EarlierKeepAlive(w) ==
    /\ Running
    /\ wdPc[w] = "probe"
    /\ m' = Free
    /\ \E ok \in StepOutcomes(client) :
         wdPc' = [wdPc EXCEPT ![w] = IF ok THEN "idle" ELSE "recover"]
    /\ UNCHANGED <<config, unitVars, bcastVars, lifeVars, client, netVars,
                   startVars, wdHist, mainVars, sendVars>>

(* after a failed KeepAlive the goroutine connects again and assigns
   emailSender.client; when the connection fails log.Panicf ends the
   process (email.go 285-290) *)
EarlierReestablish(w) ==
    /\ Running
    /\ wdPc[w] = "recover"
    /\ \E fault \in ConnectFaults :
         LET r == createConnectedSmtpClient(fault)
         IN  IF fault = "ok"
             THEN /\ client' = r.client
                  /\ nextHandle' = r.next
                  /\ open' = r.open
                  /\ dropped' = Forget(dropped, client')
                  /\ wdPc' = [wdPc EXCEPT ![w] = "idle"]
                  /\ UNCHANGED <<config, unitVars, bcastVars, lifeVars, m,
                                 startVars, wdHist, mainVars, sendVars>>
             ELSE ProcessExit("panic")

(* main of the earlier version with its keep-alive goroutine, one caller of
   SendEmail and a server that may drop the connection *)
EarlierInit ==
    /\ SenderInit
    /\ ~config.noSmtpInit /\ ~config.disableKeepAlive
    /\ config.security = "SMTPSecure"
    /\ mainPc = "boot"
    /\ TbInit("", "absent")
    /\ code = [c \in Callers |-> <<>>]
    /\ PlainInit

EarlierSend(c) ==
    \/ SendBegin(c)
    \/ SendLock(c)
    \/ SendLoopExit(c)
    \/ SendReconnect(c)
    \/ SendEnter(c)
    \/ SendMail(c)
    \/ SendRcpt(c)
    \/ SendData(c)
    \/ SendWrite(c)
    \/ SendCloseWriter(c)
    \/ SendSuccess(c)
    \/ SendUnlock(c)

EarlierNext ==
    \/ EarlierBoot
    \/ \E c \in RunCallers : EarlierSend(c)
    \/ \E w \in Watchdogs :
         \/ EarlierTick(w)
         \/ EarlierKeepAliveLock(w)
         \/ EarlierKeepAlive(w)
         \/ EarlierReestablish(w)
    \/ DropConnection

EarlierSpec == EarlierInit /\ [][EarlierNext]_vars

(* ---------------- a sender that is closed twice --------------------- *)
(* Close is an exported method of the sender (email.go 626-636) and takes
   no note of having run: a caller that closes the sender again, as when
   an owner's deferred Close follows an explicit one, runs the same code
   from its Lock *)
CloseAgain ==
    /\ Running
    /\ mainPc = "closed"
    /\ mainPc' = "closeLock"
    /\ UNCHANGED <<config, unitVars, bcastVars, lifeVars, client, m, netVars,
                   startVars, wdPc, wdHist, mainErrChan, exited, sendVars>>

CloseTwiceNext ==
    \/ RunSystem
    \/ CloseAgain

CloseTwiceSpec == RunInit /\ [][CloseTwiceNext]_vars

(* ---------------- the six Send... methods and the broadcaster ---------- *)
(* a notification that broadcasts as the code-carrying methods do *)
MethodEnterAlwaysBroadcasts(c) ==
    /\ Running
    /\ Serving
    /\ sendPc[c] = "idle"
    /\ \A b \in Callers : b < c => sendPc[b] # "idle"
    /\ \E e \in Events : mEvent' = [mEvent EXCEPT ![c] = e]
    /\ sendPc' = [sendPc EXCEPT ![c] = "bcast"]
    /\ UNCHANGED <<config, storageVars, histVars, templates, senderName, now,
                   mName, mText, mHtml, composeVars, dialVars, bcastVars,
                   lifeVars, client, m, netVars, startVars, wdPc, wdHist,
                   mainVars, iter, mailErr, result, nMail, nReconn, okAt,
                   attemptVars>>

(* a request calls one of the six Send... methods: the three that carry a
   code or a temporary password begin with the broadcast (email.go 666-670,
   697-701, 732-736), the three notifications begin with their templates
   (email.go 767-779, 799-811, 831-843) *)
MethodEnter(c) ==
    /\ Running
    /\ Serving
    /\ sendPc[c] = "idle"
    /\ \A b \in Callers : b < c => sendPc[b] # "idle"
    /\ \E e \in Events :
         /\ mEvent' = [mEvent EXCEPT ![c] = e]
         /\ sendPc' = [sendPc EXCEPT
                       ![c] = IF e \in SecretEvents THEN "bcast"
                              ELSE "render"]
    /\ UNCHANGED <<config, storageVars, histVars, templates, senderName, now,
                   mName, mText, mHtml, composeVars, dialVars, bcastVars,
                   lifeVars, client, m, netVars, startVars, wdPc, wdHist,
                   mainVars, iter, mailErr, result, nMail, nReconn, okAt,
                   attemptVars>>

(* the process of BroadcastSpec with all six methods and no subscriber:
   what Broadcast writes to whom is the subject of BroadcastSpec *)
MethodsNext ==
    \/ TbStart
    \/ MainSkipInit
    \/ MainListen
    \/ MainSelect
    \/ RunRecvServerErr
    \/ CloseIdleSender
    \/ RunReturn
    \/ TbCloseStop
    \/ TbCloseClear
    \/ TbCloseListener
    \/ RunReturnClosed
    \/ AcceptError
    \/ \E c \in Callers :
         \/ MethodEnter(c)
         \/ BroadcastBegin(c)
         \/ BroadcastEnd(c)
         \/ SendMethodRender(c)

MethodsSpec == BroadcastInit /\ [][MethodsNext]_vars

(* ---------------- a Send... call from its templates to its delivery ---- *)
(* the calls of RenderSpec go on into SendEmailWithHTML: the message is
   composed, the mutex is taken and the message is transmitted on a sender
   that is started lazily and has no keep-alive goroutine.  The six
   methods have the same shape (email.go 666-856); the calls followed here
   are signup calls, on every table that has signup templates. *)
PipelineTables ==
    {t \in TemplateTables :
       t.isNil \/ \A n \in TemplateNames :
                     t.named[n] # "absent" =>
                        n \in {TextName("signup"), HtmlName("signup")}}

PipelineInit ==
    /\ UnitInit
    /\ templates \in PipelineTables
    /\ senderName = <<>>
    /\ now = 0
    /\ CallsInit
    /\ code = [c \in Callers |-> <<"7", "K">>]

PipelineNext ==
    \/ DropConnection
    \/ \E c \in Callers :
         \/ MethodCall(c) /\ mEvent'[c] = "signup"
         \/ RenderText(c)
         \/ RenderHtml(c)
         \/ MethodFallback(c)
         \/ Compose(c)
         \/ SendLock(c)
         \/ SendLoopExit(c)
         \/ SendReconnect(c)
         \/ SendLazyStart(c)
         \/ SendEnter(c)
         \/ SendMail(c)
         \/ SendRcpt(c)
         \/ SendData(c)
         \/ SendWrite(c)
         \/ SendCloseWriter(c)
         \/ SendSuccess(c)
         \/ SendUnlock(c)

PipelineSpec == PipelineInit /\ [][PipelineNext]_vars

(* ---------------- the storages ---------------- *)
(* storageStruct (vite.config.ts 11-199) and mainStorageStruct
   (main-storage.go) keep one SQLite table, key_value; each method runs one
   prepared statement, which SQLite executes atomically.  A statement can
   fail in the database (the file is locked by another connection, the
   disk is full): the method returns that error. *)
StorageKinds == {"storage", "mainStorage"}
Expiries == 0..MaxNow

(* expiresAt.Format(time.RFC3339): the time to the second *)
RFC3339(t) == <<"rfc3339", Second(t)>>

Row(value, counter, expiration) ==
    [exists |-> TRUE, value |-> value, counter |-> counter,
     expiration |-> expiration]

Call(op, key, value, expiration, counter, err) ==
    [op |-> op, key |-> key, value |-> value, expiration |-> expiration,
     counter |-> counter, err |-> err, seq |-> 1 - stLast.seq]

(* the WHERE clause of the update statement: key = ? AND counter = ?
   (vite.config.ts 103-107; main-storage.go 93-97) *)
UpdateMatchesAnyCounter(row, counter) == row.exists

UpdateMatches(row, counter) == row.exists /\ row.counter = counter

(* Get: the value and the counter of the row, or entry-not-found
   (vite.config.ts 132-145; main-storage.go 122-135) *)
StGet ==
    /\ Running
    /\ \E k \in Keys, fault \in BOOLEAN :
         stLast' = Call("get", k, store[k].value, <<>>, store[k].counter,
                        IF fault THEN "db"
                        ELSE IF store[k].exists THEN "nil" ELSE "notFound")
    /\ UNCHANGED <<config, calcVars, histVars, store, stKind, stWon,
                   stWonEver, bcastVars, lifeVars, client, m, netVars,
                   startVars, wdPc, wdHist, mainVars, sendVars>>

(* storageStruct.Add: INSERT with counter 0; a row with that key is a
   primary-key violation, returned as entry-already-exists
   (vite.config.ts 95-97, 147-156) *)
StAdd ==
    /\ Running
    /\ stKind = "storage"
    /\ \E k \in Keys, v \in Values, e \in Expiries, fault \in BOOLEAN :
         IF fault \/ store[k].exists
         THEN /\ stLast' = Call("add", k, v, RFC3339(e), 0,
                                IF fault THEN "db" ELSE "exists")
              /\ UNCHANGED <<store, stWon>>
         ELSE /\ stLast' = Call("add", k, v, RFC3339(e), 0, "nil")
              /\ store' = [store EXCEPT ![k] = Row(v, 0, RFC3339(e))]
              /\ stWon' = [stWon EXCEPT ![k] = {}]
    /\ UNCHANGED <<config, calcVars, histVars, stKind, stWonEver, bcastVars,
                   lifeVars, client, m, netVars, startVars, wdPc, wdHist,
                   mainVars, sendVars>>

(* mainStorageStruct.Set: INSERT OR REPLACE with counter 0
   (main-storage.go 84-87, 137-142) *)
StSet ==
    /\ Running
    /\ stKind = "mainStorage"
    /\ \E k \in Keys, v \in Values, e \in Expiries, fault \in BOOLEAN :
         IF fault
         THEN /\ stLast' = Call("set", k, v, RFC3339(e), 0, "db")
              /\ UNCHANGED <<store, stWon>>
         ELSE /\ stLast' = Call("set", k, v, RFC3339(e), 0, "nil")
              /\ store' = [store EXCEPT ![k] = Row(v, 0, RFC3339(e))]
              /\ stWon' = [stWon EXCEPT ![k] = {}]
    /\ UNCHANGED <<config, calcVars, histVars, stKind, stWonEver, bcastVars,
                   lifeVars, client, m, netVars, startVars, wdPc, wdHist,
                   mainVars, sendVars>>

(* Update: the update statement sets value and expiration and raises the
   counter of the row it matches; with no row affected the method returns
   entry-not-found (vite.config.ts 158-176; main-storage.go 144-162) *)
StUpdate ==
    /\ Running
    /\ \E k \in Keys, v \in Values, e \in Expiries, n \in 0..MaxCounter,
          fault \in BOOLEAN :
         IF fault
         THEN /\ stLast' = Call("update", k, v, RFC3339(e), n, "db")
              /\ UNCHANGED <<store, stWon, stWonEver>>
         ELSE IF UpdateMatches(store[k], n)
         THEN /\ store[k].counter < MaxCounter
              /\ stLast' = Call("update", k, v, RFC3339(e), n, "nil")
              /\ store' = [store EXCEPT
                           ![k] = Row(v, store[k].counter + 1, RFC3339(e))]
              /\ stWon' = [stWon EXCEPT ![k] = @ \cup {n}]
              /\ stWonEver' = [stWonEver EXCEPT ![k] = @ \cup {n}]
         ELSE /\ stLast' = Call("update", k, v, RFC3339(e), n, "notFound")
              /\ UNCHANGED <<store, stWon, stWonEver>>
    /\ UNCHANGED <<config, calcVars, histVars, stKind, bcastVars, lifeVars,
                   client, m, netVars, startVars, wdPc, wdHist, mainVars,
                   sendVars>>

(* Delete: the row is deleted; with no row affected the method returns
   entry-not-found (vite.config.ts 178-194; main-storage.go 164-179) *)
StDelete ==
    /\ Running
    /\ \E k \in Keys, fault \in BOOLEAN :
         IF fault \/ ~store[k].exists
         THEN /\ stLast' = Call("delete", k, "", <<>>, 0,
                                IF fault THEN "db" ELSE "notFound")
              /\ UNCHANGED <<store, stWon>>
         ELSE /\ stLast' = Call("delete", k, "", <<>>, 0, "nil")
              /\ store' = [store EXCEPT ![k] = NoEntry]
              /\ stWon' = [stWon EXCEPT ![k] = {}]
    /\ UNCHANGED <<config, calcVars, histVars, stKind, stWonEver, bcastVars,
                   lifeVars, client, m, netVars, startVars, wdPc, wdHist,
                   mainVars, sendVars>>

(* storageStruct.Clear: DELETE FROM key_value (vite.config.ts 196-199) *)
StClear ==
    /\ Running
    /\ stKind = "storage"
    /\ \E fault \in BOOLEAN :
         IF fault
         THEN /\ stLast' = Call("clear", "", "", <<>>, 0, "db")
              /\ UNCHANGED <<store, stWon>>
         ELSE /\ stLast' = Call("clear", "", "", <<>>, 0, "nil")
              /\ store' = [k \in Keys |-> NoEntry]
              /\ stWon' = [k \in Keys |-> {}]
    /\ UNCHANGED <<config, calcVars, histVars, stKind, stWonEver, bcastVars,
                   lifeVars, client, m, netVars, startVars, wdPc, wdHist,
                   mainVars, sendVars>>

(* newStorage and newMainStorage create the table if it is not there
   (vite.config.ts 55-130; main-storage.go 44-120); the calls of the
   requests that are served concurrently are executed one statement at a
   time, in any order *)
StorageInit ==
    /\ UnitInit
    /\ templates = NilTemplates
    /\ senderName = <<>>
    /\ now = 0
    /\ CallsIdle
    /\ code = [c \in Callers |-> <<>>]
    /\ store = [k \in Keys |-> NoEntry]
    /\ stKind \in StorageKinds
    /\ stLast = NoCall
    /\ stWon = [k \in Keys |-> {}]
    /\ stWonEver = [k \in Keys |-> {}]

StorageNext ==
    \/ StGet
    \/ StAdd
    \/ StSet
    \/ StUpdate
    \/ StDelete
    \/ StClear

StorageSpec == StorageInit /\ [][StorageNext]_vars

(* ---------------- regions ---------------- *)
(* a Send between m.Lock() and the deferred m.Unlock() *)
InSend(c) ==
    sendPc[c] \in {"top", "mail", "rcpt", "data", "write", "close", "sent",
                   "ret"}

(* a keep-alive goroutine between the Lock of KeepAlive and its Unlock *)
InKeepAlive(w) == wdPc[w] \in {"probe", "recover"}

(* ---------------- claims ---------------- *)

(* C1: two concurrent Sends never interleave: while one call is between its
   Lock and its deferred Unlock (all attempts and reconnects included) it
   holds the mutex and no other call is in that region. *)
SendsSerialized ==
    \A c1 \in Callers :
        InSend(c1) =>
            /\ m = SendProc(c1)
            /\ \A c2 \in Callers \ {c1} : ~InSend(c2)

(* a Send is retrying after a reconnect while another Send waits *)
SendsSerializedWitness ==
    \E c1, c2 \in Callers :
        /\ c1 # c2
        /\ sendPc[c1] = "rcpt" /\ iter[c1] = 2 /\ nReconn[c1] = 1
        /\ sendPc[c2] = "lock"

(* C2: a probe and the replacement of the handle by the keep-alive
   goroutine never run while a Send is between Lock and Unlock; the
   goroutine holds the mutex whenever it probes or replaces the handle, and
   nobody but the holder of the mutex changes the handle. *)
KeepAliveExcludesSend ==
    /\ [](\A w \in Watchdogs :
            InKeepAlive(w) =>
                /\ m = WdProc(w)
                /\ \A c \in Callers : ~InSend(c))
    /\ [][client' # client =>
             \/ exited' # "no"
             \/ \E w \in Watchdogs : wdPc[w] = "recover" /\ m = WdProc(w)
             \/ \E c \in Callers : InSend(c) /\ m = SendProc(c)
             \/ mainPc = "start" /\ m = MainProc]_vars

(* the goroutine is reconnecting after a failed probe while a Send waits *)
KeepAliveExcludesSendWitness ==
    \E w \in Watchdogs, c \in Callers :
        /\ wdPc[w] = "recover"
        /\ sendPc[c] = "lock"
        /\ client \in probeFailed

(* C4: one Send call makes at most 3 transmission attempts and at most 2
   reconnects. *)
AttemptsBounded ==
    \A c \in Callers :
        /\ nMail[c] <= MaxAttempts
        /\ nReconn[c] <= MaxAttempts - 1
        /\ iter[c] <= MaxAttempts

(* a call that has made its third attempt after two reconnects *)
AttemptsBoundedWitness ==
    \E c \in Callers : nMail[c] = 3 /\ nReconn[c] = 2 /\ sendPc[c] = "ret"

(* C5: when all 3 attempts failed at a protocol step, Send returns the
   error of the third attempt and has made no connection attempt after that
   failure. *)
ExhaustedReturnsLastError ==
    \A c \in Callers :
        (sendPc[c] = "ret" /\ nMail[c] = MaxAttempts /\ okAt[c] = 0) =>
            /\ result[c] # NoErr
            /\ result[c][1] = "send"
            /\ result[c][3] = MaxAttempts
            /\ result[c] = mailErr[c]
            /\ nReconn[c] = MaxAttempts - 1

(* three failed attempts, the last one at a later step than the DATA
   command *)
ExhaustedReturnsLastErrorWitness ==
    \E c \in Callers :
        /\ sendPc[c] = "ret" /\ nMail[c] = 3 /\ okAt[c] = 0
        /\ result[c] = SendErr("close", 3)

(* C6: a failed reconnect ends the call at once with the connection error:
   the handle is left as it was and the call makes no further attempt or
   reconnect. *)
ReconnectFailureAborts ==
    [][\A c \in Callers :
         /\ (sendPc[c] = "top" /\ mailErr[c] # NoErr /\ sendPc'[c] # "mail"
             /\ nReconn'[c] = nReconn[c] + 1) =>
                /\ sendPc'[c] = "ret"
                /\ result'[c][1] = "connect"
                /\ client' = client
         /\ (sendPc[c] = "ret" /\ result[c][1] = "connect") =>
                \/ exited' # "no"
                \/ /\ client' = client
                   /\ nextHandle' = nextHandle
                   /\ sendPc'[c] \in {"ret", "done"}
                   /\ nMail'[c] \in {nMail[c], 0}]_vars

(* a call that returns the error of its second reconnect *)
ReconnectFailureAbortsWitness ==
    \E c \in Callers :
        /\ sendPc[c] = "ret" /\ result[c][1] = "connect"
        /\ nReconn[c] = 2 /\ nMail[c] = 2 /\ client # 0

(* C7: Send returns nil exactly when one of its attempts completed every
   protocol command; the failure of an earlier attempt is not returned, and
   the successful attempt is the last one of the call. *)
SuccessIffAttemptCompleted ==
    \A c \in Callers :
        /\ sendPc[c] = "ret" =>
              /\ (result[c] = NoErr) <=> (okAt[c] # 0)
              /\ okAt[c] # 0 => (nMail[c] = okAt[c] /\ iter[c] = okAt[c])
        /\ sendPc[c] = "sent" => nMail[c] = iter[c]

(* a call returns nil from its second attempt, the first one having failed *)
SuccessIffAttemptCompletedWitness ==
    \E c \in Callers :
        /\ sendPc[c] = "ret" /\ okAt[c] = 2 /\ nReconn[c] = 1
        /\ result[c] = NoErr

(* C8: when a probe fails and the goroutine's reconnect succeeds, the fresh
   handle is current, and its connection up, at the moment the mutex is
   released; no Send ever runs on a handle on which a probe has failed. *)
RecoveredHandleInstalled ==
    /\ [](\A c \in Callers : InSend(c) => client \notin probeFailed)
    /\ [](m = Free => client \notin probeFailed)
    /\ [][\A w \in Watchdogs :
            (wdPc[w] = "recover" /\ wdPc'[w] = "idle") =>
                /\ m' = Free
                /\ client' # client
                /\ client' \in wdInstalled'
                /\ client' \in open' /\ client' \notin dropped']_vars

(* the server dropped the connection, the probe failed, the goroutine
   reconnected, and a Send has completed its first attempt on the handle
   the goroutine installed *)
RecoveredHandleInstalledWitness ==
    \E c \in Callers :
        /\ sendPc[c] = "ret" /\ result[c] = NoErr /\ nMail[c] = 1
        /\ client \in wdInstalled

(* C9: when the probe and the reconnect both fail, the goroutine puts one
   error on the error channel without blocking and ends: it never probes or
   reconnects again. *)
FailedRecoveryReportsOnce ==
    /\ [](\A w \in Watchdogs :
            /\ wdPc[w] = "report" =>
                  errChan # 0 /\ Len(chans[errChan]) < ErrChanCap
            /\ wdPc[w] = "dead" =>
                  chans[errChan] = <<WatchdogErr("fail")>>)
    /\ [](\A i \in 1..Len(chans) : Len(chans[i]) <= 1)
    /\ [][exited' = "no" =>
            \A w \in Watchdogs :
                /\ (wdPc[w] = "report" /\ wdPc'[w] # "report") =>
                       wdPc'[w] = "dead"
                /\ wdPc[w] = "dead" => wdPc'[w] = "dead"
                /\ wdPc[w] \in {"report", "dead"} =>
                       (client' = client /\ nextHandle' = nextHandle)]_vars

(* the goroutine has ended after reporting, its error still in the channel *)
FailedRecoveryReportsOnceWitness ==
    \E w \in Watchdogs :
        /\ wdPc[w] = "dead"
        /\ chans[errChan] = <<WatchdogErr("fail")>>
        /\ client \in probeFailed

(* C3: every Send that has asked for the mutex eventually returns (or the
   process ends). *)
SendEventuallyReturns ==
    \A c \in Callers :
        (sendPc[c] = "lock") ~> (sendPc[c] = "done" \/ exited # "no")

(* C10: once the goroutine has reported a recovery failure, main eventually
   receives an error and the process ends, whether the sender was started at
   start-up or lazily by the first Send. *)
RecoveryFailureReachesMain ==
    (\E w \in Watchdogs : wdPc[w] = "dead") ~> (exited # "no")

(* C11: in the process started by tiauth.Run, once Run has received the
   recovery failure that the keep-alive goroutine put on the error channel,
   its deferred Close of the sender eventually completes, so that Run
   returns that error. *)
RunReturnsRecoveryFailure ==
    (runErr = "mail") ~> (mainPc = "closed" \/ exited = "runMailErr")

(* C12: after Close has returned no keep-alive goroutine starts a probe,
   makes a connection or installs a handle. *)
NothingAfterClose ==
    [][(mainPc = "closed" /\ mainPc' = "closed") =>
          \A w \in Watchdogs :
              /\ ~(wdPc[w] = "lock" /\ wdPc'[w] = "probe")
              /\ wdPc[w] = "recover" =>
                    (nextHandle' = nextHandle /\ client' = client)]_vars

(* C13: once StopKeepAlive has closed the stop channel every keep-alive
   goroutine eventually ends.  A goroutine ends on the stop signal only from
   its select, where it holds no mutex and no probe is in flight; the signal
   does not move a goroutine that is inside KeepAlive or the recovery, which
   run on to their end. *)
StopEndsWatchdog ==
    /\ stopClosed ~> (\A w \in Watchdogs :
                         wdPc[w] \in {"off", "dead", "stopped"})
    /\ [](\A w \in Watchdogs : wdPc[w] = "stopped" => m # WdProc(w))
    /\ [][\A w \in Watchdogs :
            /\ (wdPc'[w] = "stopped" /\ wdPc[w] # "stopped") =>
                   wdPc[w] = "idle"
            /\ (wdPc[w] \in {"lock", "probe", "recover", "report"}
                /\ stopClosed' /\ ~stopClosed) => wdPc'[w] = wdPc[w]
            /\ (wdPc[w] \in {"probe", "recover"} /\ exited' = "no") =>
                   wdPc'[w] \in {"probe", "recover", "report", "idle"}]_vars

(* the stop signal came while the goroutine waited for the mutex in
   KeepAlive: after Close it probed the handle Close had quit, replaced it,
   and then ended at its select *)
StopEndsWatchdogWitness ==
    \E w \in Watchdogs :
        /\ stopClosed /\ wdPc[w] = "stopped"
        /\ quitOn # 0 /\ client # quitOn /\ client \in wdInstalled

(* C14: the sender has one current handle.  A handle that replaces another
   one is fresh, so a replaced handle never becomes current again; every
   retry of a Send runs on a handle other than the one that failed; and the
   writer a Send writes to and closes belongs to the current handle. *)
ReplacedHandleNeverUsed ==
    /\ [](client \in Handles \cup {0})
    /\ [](\A c \in Callers :
            sendPc[c] \in {"write", "close"} => writer[c] = client)
    /\ [][(client' # client /\ exited' = "no") =>
             (client' = nextHandle /\ client' > client)]_vars
    /\ [][\A c \in Callers :
            (sendPc[c] = "top" /\ mailErr[c] # NoErr /\ sendPc'[c] = "mail")
                => (client' # client /\ client' = nextHandle)]_vars

(* a Send closes the writer of its second attempt on the third handle: the
   goroutine or an earlier reconnect replaced the first, this call's
   reconnect the second *)
ReplacedHandleNeverUsedWitness ==
    \E c \in Callers :
        /\ sendPc[c] = "close" /\ iter[c] = 2 /\ nReconn[c] = 1
        /\ writer[c] = 3 /\ client = 3

(* C15: a Send that finds no handle starts the sender before its first
   transmission attempt, so no command is ever issued without a handle; if
   that Start fails the call returns its error without having issued a
   command and the sender still has no handle. *)
LazyStartBeforeFirstAttempt ==
    /\ [](\A c \in Callers :
            /\ sendPc[c] \in {"mail", "rcpt", "data", "write", "close",
                              "sent"} => client # 0
            /\ (sendPc[c] = "ret" /\ result[c][1] = "start") =>
                  (nMail[c] = 0 /\ client = 0))
    /\ [][\A c \in Callers :
            (sendPc[c] = "top" /\ client = 0 /\ sendPc'[c] # "top"
             /\ exited' = "no") =>
                /\ nMail[c] = 0 /\ nMail'[c] = 0
                /\ \/ /\ sendPc'[c] = "mail"
                      /\ client' = nextHandle /\ client' \in open'
                   \/ /\ sendPc'[c] = "ret"
                      /\ result'[c][1] = "start"
                      /\ client' = 0]_vars

(* the lazy Start of a Send has failed at the handshake *)
LazyStartBeforeFirstAttemptWitness ==
    \E c \in Callers :
        /\ sendPc[c] = "ret" /\ result[c] = StartErr("hello")
        /\ client = 0 /\ nMail[c] = 0

(* C16: an attempt declares one recipient, the receiverEmail of its call,
   before it transmits, and a call is over once an attempt has completed:
   it completes a transmission at most once. *)
OneRecipientOneTransmission ==
    /\ [](\A c \in Callers :
            /\ rcpts[c] \in {<<>>, <<receiverEmail(c)>>}
            /\ sendPc[c] \in {"data", "write", "close", "sent"} =>
                  rcpts[c] = <<receiverEmail(c)>>)
    /\ [][\A c \in Callers :
            exited' = "no" =>
                /\ sendPc'[c] = "sent" =>
                      sendPc[c] \in {"close", "sent"}
                /\ sendPc[c] = "sent" => sendPc'[c] \in {"sent", "ret"}
                /\ sendPc[c] = "ret" => sendPc'[c] \in {"ret", "done"}
                /\ sendPc[c] = "done" => sendPc'[c] = "done"]_vars

(* the third attempt of a call has completed while another call waits *)
OneRecipientOneTransmissionWitness ==
    \E c1, c2 \in Callers :
        /\ sendPc[c1] = "sent" /\ iter[c1] = 3
        /\ rcpts[c1] = <<receiverEmail(c1)>>
        /\ sendPc[c2] = "lock"

(* ---------------- C17 ---------------- *)
(* the lines subscriber k has received that call c's message makes *)
LinesOf(c, k) ==
    {i \in 1..Len(received[k]) : received[k][i] = Line(TokenMessage(c))}

(* the loop of call c's Broadcast is over *)
BroadcastDone(c) == sendPc[c] = "bwrite" /\ bcTodo[c] = {}

(* C17: a Broadcast that finds no subscriber returns without an error,
   without writing anything and without waiting for anything; a Broadcast
   that finds one writable subscriber writes to it exactly one line, which
   ends in the only line feed it holds and decodes to the message with the
   receiver's address and the given code. *)
BroadcastDeliversOneLine ==
    /\ [](\A c \in RunCallers :
            sendPc[c] \in {"bcast", "bwrite"} => ENABLED BroadcastStep(c))
    /\ [](\A c \in RunCallers :
            (BroadcastDone(c) /\ bcSnap[c] = {}) =>
               /\ result[c] = NoErr
               /\ bcWrote[c] = {} /\ bcFailed[c] = {}
               /\ \A k \in Conns : LinesOf(c, k) = {})
    /\ [](\A c \in RunCallers : \A k \in Conns :
            (BroadcastDone(c) /\ bcSnap[c] = {k} /\ bcWrote[c] = {k}
               /\ conn[k] = "open") =>
               /\ result[c] = NoErr
               /\ Cardinality(LinesOf(c, k)) = 1)
    /\ [](\A k \in Conns : \A i \in 1..Len(received[k]) :
            LET line == received[k][i] IN
              /\ line[Len(line)] = LF
              /\ \A j \in 1..(Len(line) - 1) : line[j] # LF
              /\ \E c \in RunCallers : Decode(line) = TokenMessage(c))
    /\ [][\A c \in RunCallers : \A k \in Conns :
            (sendPc[c] = "bwrite" /\ bcWrote'[c] = bcWrote[c] \cup {k}
               /\ k \notin bcWrote[c]) =>
               received' = [received EXCEPT
                            ![k] = Append(@, Line(TokenMessage(c)))]]_vars
    /\ [][\A c \in RunCallers :
            (BroadcastDone(c) /\ sendPc'[c] # "bwrite" /\ exited' = "no") =>
               sendPc'[c] = "render" /\ result'[c] = NoErr]_vars

(* C17 witness: the Broadcast of a code with a line feed in it has gone to
   its one subscriber, which holds exactly that one line *)
BroadcastDeliversOneLineWitness ==
    \E c \in RunCallers : \E k \in Conns :
      /\ BroadcastDone(c)
      /\ code[c] = <<LF, Backslash, "n", Quote>>
      /\ bcSnap[c] = {k} /\ bcWrote[c] = {k}
      /\ conn[k] = "open"
      /\ received[k] = <<Line(TokenMessage(c))>>

(* ---------------- C18 ---------------- *)
(* C18: a failed write in Broadcast takes exactly the subscriber written
   to out of the client set and nothing else; the loop goes on, so that
   every subscriber of the copy is written to, and the call has no error
   from it. *)
WriteFailureRemovesOnlyThatClient ==
    /\ [][\A c \in RunCallers :
            (sendPc[c] = "bwrite" /\ bcFailed'[c] # bcFailed[c]
               /\ sendPc'[c] = "bwrite" /\ exited' = "no") =>
               \E k \in bcTodo[c] :
                 /\ bcFailed'[c] = bcFailed[c] \cup {k}
                 /\ tbClients' = tbClients \ {k}
                 /\ bcTodo'[c] = bcTodo[c] \ {k}
                 /\ result'[c] = NoErr
                 /\ \A j \in Conns \ {k} : received'[j] = received[j]]_vars
    /\ [][\A c \in RunCallers :
            (sendPc[c] = "bwrite" /\ bcTodo[c] # {} /\ exited' = "no") =>
               sendPc'[c] = "bwrite"]_vars
    /\ [](\A c \in RunCallers :
            BroadcastDone(c) =>
               /\ bcWrote[c] \cup bcFailed[c] = bcSnap[c]
               /\ bcWrote[c] \cap bcFailed[c] = {}
               /\ result[c] = NoErr)

(* C18 witness: the loop of a Broadcast to two subscribers is over; the
   write to one failed and it is out of the set, the other was written to
   and is still in the set *)
WriteFailureRemovesOnlyThatClientWitness ==
    \E c \in RunCallers : \E k1, k2 \in Conns :
      /\ k1 # k2
      /\ BroadcastDone(c)
      /\ bcFailed[c] = {k1} /\ bcWrote[c] = {k2}
      /\ k1 \notin tbClients /\ k2 \in tbClients
      /\ LinesOf(c, k2) # {}

(* ---------------- C19 ---------------- *)
(* C19: once the broadcaster's Close has returned, its client set is
   empty. *)
ClosedBroadcasterStaysEmpty ==
    mainPc = "tbClosed" => tbClients = {}

(* ---------------- C20 ---------------- *)
senderState == <<client, m, netVars, startVars, wdPc, lifeVars>>

(* C20: whatever the broadcaster is and does, a Send... call gets through
   Broadcast without waiting and without an error, Broadcast leaves the
   sender alone, the call then renders its templates, and a call whose
   templates render calls SendEmailWithHTML; the only error the call can
   have before that is the templates' error. *)
SendIndependentOfBroadcaster ==
    /\ [](\A c \in RunCallers :
            /\ sendPc[c] \in {"bcast", "bwrite"} => ENABLED BroadcastStep(c)
            /\ sendPc[c] = "render" => ENABLED SendMethodRender(c))
    /\ [][\A c \in RunCallers :
            (sendPc[c] \in {"bcast", "bwrite"} /\ exited' = "no") =>
               /\ sendPc'[c] \in {"bcast", "bwrite", "render"}
               /\ result'[c] = NoErr
               /\ (sendPc'[c] # sendPc[c] \/ bcTodo'[c] # bcTodo[c]) =>
                     senderState' = senderState]_vars
    /\ [][\A c \in RunCallers :
            (sendPc[c] = "render" /\ sendPc'[c] # "render"
               /\ exited' = "no") =>
               \/ sendPc'[c] = "lock" /\ result'[c] = NoErr
               \/ sendPc'[c] = "failed" /\ result'[c] = TemplateErr]_vars

(* C20 witness: a call has called SendEmailWithHTML although a write of a
   Broadcast failed: before Run's shutdown a connection is closed with its
   handleClient still running only after such a write *)
SendIndependentOfBroadcasterWitness ==
    \E c \in RunCallers : \E k \in Conns :
      /\ sendPc[c] = "lock"
      /\ result[c] = NoErr
      /\ mainPc = "select"
      /\ conn[k] = "closed" /\ handler[k]

(* ---------------- C29 ---------------- *)
(* C29: a keep-alive goroutine holds the mutex from the Lock of KeepAlive
   on; when the probe succeeded KeepAlive has released it, when the probe
   failed the goroutine holds it until the path it takes is over, and then
   it has released it. *)
FailedProbeReleasesMutex ==
    \A w \in Watchdogs :
        /\ wdPc[w] \in {"probe", "recover", "report"} => m = WdProc(w)
        /\ wdPc[w] \in {"off", "idle", "lock", "dead", "stopped"} =>
              m # WdProc(w)

(* ---------------- C21 ---------------- *)
(* the broadcaster was made but never started: it has no socket path, or
   it has no listener *)
NeverStarted ==
    tbListener # "absent" /\ (tbSocketPath = "" \/ tbListener = "nil")

(* C21: the Broadcast of a broadcaster that was never started is over in
   one step, in which no connection is written to or closed and the client
   set stays as it is; such a Broadcast is never in its write loop. *)
BroadcastNotStartedIsNoOp ==
    /\ [][\A c \in RunCallers :
            (NeverStarted /\ sendPc[c] = "bcast" /\ sendPc'[c] # "bcast"
               /\ exited' = "no") =>
               /\ sendPc'[c] = "render"
               /\ received' = received /\ conn' = conn
               /\ tbClients' = tbClients
               /\ bcSnap'[c] = {} /\ bcWrote'[c] = {}
               /\ bcFailed'[c] = {}]_vars
    /\ [](NeverStarted =>
            /\ tbClients = {}
            /\ \A c \in RunCallers : sendPc[c] # "bwrite"
            /\ \A k \in Conns : received[k] = <<>> /\ conn[k] = "free")

(* C21 witness: a call is back from the Broadcast of a broadcaster without
   a socket path *)
BroadcastNotStartedIsNoOpWitness ==
    \E c \in RunCallers :
      /\ NeverStarted
      /\ sendPc[c] = "render"
      /\ mainPc = "select"

(* ---------------- C22 ---------------- *)
(* the text template of the method a caller is in exists and executes *)
TextTemplateExecutes(c) ==
    /\ ~templates.isNil
    /\ templates.named[TextName(mEvent[c])] # "absent"
    /\ Execute(templates.named[TextName(mEvent[c])], mEvent[c], mName[c]).ok

TextTemplateMissing(c) ==
    templates.isNil \/ templates.named[TextName(mEvent[c])] = "absent"

(* C22: whenever a Send... method calls SendEmailWithHTML, the text body it
   passes is the rendering of the method's text template if that template
   exists and executes; with no table, or no template of that name, it is
   the hardcoded message, which contains the code or temporary password
   verbatim and, for signup, has the subject and the form from which the
   test mail server reads the code back *)
BodyIsRenderingOrFallback ==
    \A c \in RunCallers :
        sendPc[c] = "args" =>
            /\ TextTemplateExecutes(c) =>
                  mArgs[c].textBody =
                    Execute(templates.named[TextName(mEvent[c])], mEvent[c],
                            mName[c]).text
            /\ TextTemplateMissing(c) =>
                  /\ mArgs[c].textBody =
                       FallbackBody(mEvent[c], mName[c], code[c], now)
                  /\ mEvent[c] \in SecretEvents =>
                       Contains(mArgs[c].textBody, code[c])
                  /\ mEvent[c] = "signup" =>
                       /\ mArgs[c].subject = <<"Signup verification code">>
                       /\ mArgs[c].textBody =
                            <<"Your email address verification code is",
                              Space>> \o code[c] \o <<".">>
                       /\ (\A i \in 1..Len(code[c]) :
                              code[c][i] \in WordChars) =>
                            ExtractCode(mArgs[c].subject, mArgs[c].textBody)
                              = code[c]

(* ---------------- C23 ---------------- *)
(* the template a caller's next render step looks up *)
NameAt(c) ==
    IF sendPc[c] = "rtext" THEN TextName(mEvent[c]) ELSE HtmlName(mEvent[c])

FoundAt(c) == ~templates.isNil /\ templates.named[NameAt(c)] # "absent"

(* C23: when the execution of a template that was found fails, the Send...
   call ends there with that error, without calling SendEmailWithHTML and
   with the session handle, the mutex and the connections as they were; a
   template that is not found is not an error, and the call goes on.  A
   call that has failed has a non-nil error and has sent nothing. *)
RenderFailureIsReturned ==
    /\ [][\A c \in RunCallers :
            sendPc[c] \in {"rtext", "rhtml"} /\ sendPc'[c] # sendPc[c] =>
              /\ FoundAt(c)
                   /\ ~Execute(templates.named[NameAt(c)], mEvent[c],
                               mName[c]).ok =>
                   /\ sendPc'[c] = "failed"
                   /\ result'[c] = RenderErr(NameAt(c))
                   /\ result'[c] # NoErr
                   /\ mArgs'[c] = NoArgs
                   /\ client' = client /\ m' = m /\ open' = open
                   /\ nMail' = nMail
              /\ ~FoundAt(c) =>
                   /\ sendPc'[c] \in {"rhtml", "fallback"}
                   /\ result'[c] = NoErr
                   /\ mText'[c] = mText[c] /\ mHtml'[c] = <<>>]_vars
    /\ [](\A c \in RunCallers :
            sendPc[c] = "failed" =>
              result[c] # NoErr /\ mArgs[c] = NoArgs /\ nMail[c] = 0)

(* the HTML template failed after the text template had rendered *)
RenderFailureIsReturnedWitness ==
    \E c \in RunCallers :
        /\ sendPc[c] = "failed"
        /\ result[c] = RenderErr(HtmlName(mEvent[c]))
        /\ mText[c] # <<>>

(* ---------------- C24 ---------------- *)
(* the steps of a complete call on a connection with local address addr *)
AllSteps(addr) ==
    <<<<"dial">>, <<"newClient">>, <<"hello", SplitHostPort(addr)>>>>
      \o (IF config.security # "SMTPInsecureDangerous" THEN <<<<"tls">>>>
          ELSE <<>>)
      \o (IF config.auth THEN <<<<"auth">>>> ELSE <<>>)

IsPrefix(s, t) == Len(s) <= Len(t) /\ SubSeq(t, 1, Len(s)) = s

Dials(log) == Cardinality({i \in 1..Len(log) : log[i] = <<"dial">>})

(* C24: the steps a call of createConnectedSmtpClient has executed are the
   first steps of: dial, NewClient, Hello with the host of the connection's
   local address, StartTLS when security is enabled, Auth when a credential
   is configured.  There is never a second dial.  A call that went through
   all of them returns the client of the connection it dialed and no error;
   any other call has returned nil and the error of the last step it
   executed, which is the first one that failed. *)
ConnectStepsInOrder ==
    /\ dialPc # "idle" =>
         /\ Dials(dialLog) <= 1
         /\ dialPc # "dial" => Dials(dialLog) = 1
         /\ IF dialConn.h = 0
            THEN IsPrefix(dialLog, <<<<"dial">>>>)
            ELSE IsPrefix(dialLog, AllSteps(dialConn.localAddr))
    /\ dialPc = "done" =>
         IF dialConn.h # 0 /\ dialLog = AllSteps(dialConn.localAddr)
            /\ dialResult.err = NoErr
         THEN dialResult.client = dialConn.h /\ dialConn.h \in open
         ELSE /\ dialResult.client = 0
              /\ dialLog # <<>>
              /\ dialResult.err = ConnectErr(dialLog[Len(dialLog)][1])

(* a call in secure mode with a credential was stopped by the TLS upgrade:
   authentication was not tried *)
ConnectStepsInOrderWitness ==
    /\ dialPc = "done"
    /\ config.auth
    /\ dialResult.err = ConnectErr("tls")
    /\ Len(dialLog) = 4
    /\ dialLog[3] = <<"hello", "::1">>

(* ---------------- C25 ---------------- *)
Attempted(step) == \E i \in 1..Len(dialLog) : dialLog[i][1] = step

(* C25: EnableSecurity is true of the configured security value unless that
   value is SMTPInsecureDangerous, and true of the zero value; then
   createConnectedSmtpClient attempts the TLS upgrade before it returns a
   client, and it attempts authentication only on a connection whose TLS
   upgrade has completed *)
SecureUnlessExplicitlyInsecure ==
    /\ EnableSecurity(config.security)
         <=> config.security # "SMTPInsecureDangerous"
    /\ EnableSecurity(ZeroSecurity)
    /\ config.security # "SMTPInsecureDangerous" =>
         /\ Attempted("auth") => dialConn.tls
         /\ dialPc = "auth" => dialConn.tls
         /\ dialPc = "done" /\ dialResult.err = NoErr => dialConn.tls
    /\ dialConn.tls => Attempted("tls")

(* a value that is neither of the named ones: authentication is under way
   on an upgraded connection *)
SecureUnlessExplicitlyInsecureWitness ==
    /\ config.security = "SMTPSecurity(2)"
    /\ Attempted("auth")
    /\ dialConn.tls
    /\ dialPc = "done"
    /\ dialResult.err = NoErr

(* ---------------- C26 ---------------- *)
(* the header section of a message ends before its first empty line *)
HeaderEnd(msg) ==
    LET ends == {i \in 1..(Len(msg) - 1) : msg[i] = CRLF /\ msg[i + 1] = CRLF}
    IN  IF ends = {} THEN Len(msg)
        ELSE (CHOOSE i \in ends : \A j \in ends : i <= j) - 1

(* the number of header lines of a message that begin with a field name *)
HeaderCount(msg, field) ==
    Cardinality({i \in 1..HeaderEnd(msg) :
                   /\ msg[i] = field
                   /\ i = 1 \/ msg[i - 1] = CRLF})

(* no line break in what goes into a header line *)
ValidArgs(args) ==
    \A v \in {args.recipientName, args.recipientEmailAddress, args.subject} :
        \A i \in 1..Len(v) : v[i] \notin {CRLF, LF}

(* C26: the header section of the message composed from valid arguments,
   plain or multipart, has exactly one From, one To, one Subject, one Date
   and one Message-ID line, and they carry the sender, the recipient, the
   subject, the date and the Message-ID of the call *)
OneOfEachHeader ==
    \A c \in Callers :
        sendPc[c] = "lock" /\ ValidArgs(mArgs[c]) =>
            /\ \A f \in {"From: ", "To: ", "Subject: ", "Date: ",
                        "Message-ID: "} :
                 HeaderCount(message[c], f) = 1
            /\ \E i \in 1..HeaderEnd(message[c]) :
                 /\ message[c][i] = "Message-ID: "
                 /\ SubSeq(message[c], i + 1, i + Len(mId[c])) = mId[c]
                 /\ message[c][i + Len(mId[c]) + 1] = CRLF

(* a multipart message with a named recipient has been composed *)
OneOfEachHeaderWitness ==
    \E c \in Callers :
        /\ sendPc[c] = "lock"
        /\ mArgs[c].htmlBody # <<>>
        /\ mArgs[c].recipientName = <<"A", "n", "n">>
        /\ HeaderCount(message[c], "Content-Type: ") = 1
        /\ senderName # <<>>

(* ---------------- C27 ---------------- *)
(* what the Message-ID of a composed call is said to be a function of *)
IdInputs(c) ==
    <<SenderEmail, mArgs[c].recipientEmailAddress, mArgs[c].textBody,
      mDate[c]>>

(* C27: of two calls that have composed their message, those with the same
   sender address, recipient address, body and timestamp have the same
   Message-ID, and those that differ in one of the four have different
   Message-IDs *)
MessageIdInjective ==
    \A c1 \in Callers, c2 \in Callers :
        sendPc[c1] = "lock" /\ sendPc[c2] = "lock" =>
            (IdInputs(c1) = IdInputs(c2) <=> mId[c1] = mId[c2])

(* ---------------- C28 ---------------- *)
(* C28: two different calls that have composed their message never have the
   same Message-ID *)
MessageIdUnique ==
    \A c1 \in Callers, c2 \in Callers :
        c1 # c2 /\ sendPc[c1] = "lock" /\ sendPc[c2] = "lock" =>
            mId[c1] # mId[c2]

(* ---------------- C30 ---------------- *)
(* the keep-alive goroutine assigns a new handle to emailSender.client *)
WatchdogReplaces(w) ==
    wdPc[w] = "recover" /\ wdPc'[w] = "idle" /\ client' # client

(* C30: in the earlier implementation the keep-alive goroutine assigns
   emailSender.client only while it holds the mutex, so never while a
   SendEmail is between its Lock and its Unlock *)
EarlierReplacementUnderMutex ==
    [][\A w \in Watchdogs :
         WatchdogReplaces(w) =>
           /\ m = WdProc(w)
           /\ \A c \in Callers : ~InSend(c)]_vars

(* ---------------- C32 ---------------- *)
(* C32: StopKeepAlive called when the stop channel has been closed already
   is no fault: the call goes on to the Quit of Close and the process
   lives on. *)
StopKeepAliveToleratesClosedChannel ==
    [][(mainPc = "stop" /\ stopChan # 0 /\ stopClosed) =>
          (mainPc' = "quit" /\ exited' = "no")]_vars

(* ---------------- C39 ---------------- *)
(* the text template of the method a caller is in executes to the empty
   string *)
TextRendersEmpty(c) ==
    /\ TextTemplateExecutes(c)
    /\ Execute(templates.named[TextName(mEvent[c])], mEvent[c],
               mName[c]).text = <<>>

(* C39: the text body a Send... method hands to SendEmailWithHTML is never
   empty, and where the text template rendered to the empty string it is
   the hardcoded message of the method *)
TextBodyNeverEmpty ==
    \A c \in RunCallers :
        sendPc[c] = "args" =>
            /\ mArgs[c].textBody # <<>>
            /\ TextRendersEmpty(c) =>
                  mArgs[c].textBody =
                    FallbackBody(mEvent[c], mName[c], code[c], now)

(* C39 witness: a method whose text template rendered to the empty string
   has called SendEmailWithHTML *)
TextBodyNeverEmptyWitness ==
    \E c \in RunCallers :
        /\ sendPc[c] = "args"
        /\ TextRendersEmpty(c)
        /\ mArgs[c].textBody # <<>>

(* ---------------- C34 ---------------- *)
(* C34: the sender has at most one keep-alive goroutine at any time: Start
   has started at most one, whether it was called at start-up or lazily
   from SendEmailWithHTML. *)
AtMostOneWatchdog ==
    /\ wdSpawned <= 1
    /\ Cardinality({w \in Watchdogs : wdPc[w] # "off"}) <= 1

(* C34 witness: the goroutine of a lazy Start exists, and a call of
   SendEmailWithHTML has failed an attempt on the handle and is about to
   reconnect *)
AtMostOneWatchdogWitness ==
    /\ config.noSmtpInit
    /\ wdSpawned = 1
    /\ \E w \in Watchdogs : wdPc[w] = "idle"
    /\ \E c \in Callers :
          sendPc[c] = "top" /\ mailErr[c] # NoErr /\ nReconn[c] = 0
                            /\ okAt[c] = 0

(* ---------------- C38 ---------------- *)
(* C38: a keep-alive goroutine exists only while the sender has a handle,
   so that its probe always has one: the goroutine is started after the
   handle is installed, and a handle that is set is never cleared while
   the process runs. *)
WatchdogHasHandle ==
    /\ [](\A w \in Watchdogs :
            wdPc[w] \in {"idle", "lock", "probe", "recover"} => client # 0)
    /\ [][(client # 0 /\ exited' = "no") => client' # 0]_vars

(* C38 witness: the goroutine of a lazily started sender is in its probe,
   on a handle whose connection was dropped *)
WatchdogHasHandleWitness ==
    \E w \in Watchdogs :
        /\ config.noSmtpInit
        /\ wdPc[w] = "probe"
        /\ client # 0
        /\ client \in dropped

(* ---------------- C35 ---------------- *)
(* C35: at any time at most one connection opened by the sender is open: a
   failed connection attempt and a replaced handle leave none behind. *)
AtMostOneOpenConnection ==
    Cardinality(open) <= 1

(* ---------------- C36 ---------------- *)
(* a call of SendEmailWithHTML makes the first attempt of its loop *)
FirstAttempt(c) ==
    sendPc[c] = "top" /\ iter[c] = 0 /\ sendPc'[c] = "mail"

(* a call is about to return the error of its last attempt *)
ReturnsLastFailure(c) ==
    sendPc[c] = "ret" /\ iter[c] = MaxAttempts /\ result[c] = mailErr[c]
                      /\ result[c] # NoErr

(* C36: when a Send returns an error because all its attempts failed, the
   sender's handle is the one the last attempt ran on, and the first
   attempt of the next Send runs on that handle. *)
NextSendUsesFailedHandle ==
    /\ [](\A c \in Callers :
            ReturnsLastFailure(c) => (client # 0 /\ client = lastFailed))
    /\ [][\A c \in Callers :
            (FirstAttempt(c) /\ lastFailed # 0) => client = lastFailed]_vars

(* C36, amended: when a Send returns an error because all its attempts
   failed, the sender's handle is the one the last attempt ran on; the
   first attempt of the next Send runs on that handle unless a keep-alive
   goroutine has replaced it in between, and then it runs on the handle
   the goroutine installed. *)
FailedHandleStaysUntilWatchdog ==
    /\ [](\A c \in Callers :
            ReturnsLastFailure(c) => (client # 0 /\ client = lastFailed))
    /\ [][\A c \in Callers :
            (FirstAttempt(c) /\ lastFailed # 0) =>
                \/ client = lastFailed
                \/ client \in wdInstalled]_vars
    /\ [][\A c \in Callers :
            (ReturnsLastFailure(c) /\ exited' = "no") =>
                (client' = client /\ lastFailed' = lastFailed)]_vars

(* C36 witness: the next Send is about to make its first attempt on the
   handle the failed Send left *)
FailedHandleStaysWitness ==
    \E c \in Callers :
        /\ sendPc[c] = "top" /\ iter[c] = 0
        /\ lastFailed # 0
        /\ client = lastFailed

(* ---------------- C37 ---------------- *)
(* the call of a Send... method is past its broadcast: it is rendering, or
   has returned a rendering error, or has called SendEmailWithHTML *)
PastBroadcast(c) == sendPc[c] \in {"render", "failed", "lock"}

(* C37: each call of a code-carrying Send... method has invoked Broadcast
   exactly once by the time it renders, whatever the outcome of rendering
   and delivery, and a notification never invokes it. *)
CodeMethodsBroadcastOnce ==
    \A c \in Callers :
        /\ bcCalls[c] <= 1
        /\ PastBroadcast(c) =>
              bcCalls[c] = IF mEvent[c] \in SecretEvents THEN 1 ELSE 0

(* C37, amended: on a sender that has a token broadcaster, each call of a
   code-carrying Send... method has invoked Broadcast exactly once by the
   time it renders, whatever the outcome of rendering and delivery; a
   notification never invokes it, and neither does any method of a sender
   that was built without a broadcaster. *)
BroadcastOnceIfAttached ==
    \A c \in Callers :
        /\ bcCalls[c] <= 1
        /\ PastBroadcast(c) =>
              bcCalls[c] = IF mEvent[c] \in SecretEvents
                              /\ tbListener # "absent"
                           THEN 1 ELSE 0
        /\ sendPc[c] \in {"bcast", "bwrite"} =>
              (mEvent[c] \in SecretEvents /\ result[c] = NoErr)

(* C37 witness: on a sender with a broadcaster, the call of a
   code-carrying method has failed to render after its one broadcast,
   while a notification has rendered without any *)
BroadcastOnceIfAttachedWitness ==
    \E c1, c2 \in Callers :
        /\ tbListener # "absent"
        /\ mEvent[c1] = "passwordReset" /\ sendPc[c1] = "failed"
        /\ bcCalls[c1] = 1
        /\ mEvent[c2] = "signin" /\ sendPc[c2] = "lock"
        /\ bcCalls[c2] = 0

(* ---------------- C31 ---------------- *)
(* a Send... call is rendering its templates or composing its message *)
Preparing(c) == sendPc[c] \in {"rtext", "rhtml", "fallback", "args"}

(* C31: rendering and composition come before the mutex: a call that
   renders or composes does not hold the mutex, the message is complete
   when the call acquires the mutex, and nothing is rendered or composed
   while it holds it; so a call can prepare its message while another
   call delivers. *)
PreparedBeforeMutex ==
    /\ [](\A c \in Callers : Preparing(c) => m # SendProc(c))
    /\ [][\A c \in Callers :
            (m # SendProc(c) /\ m' = SendProc(c)) =>
                (message[c] # <<>> /\ message'[c] = message[c])]_vars
    /\ [][\A c \in Callers :
            (m = SendProc(c) /\ exited' = "no") =>
                /\ message'[c] = message[c] /\ mArgs'[c] = mArgs[c]
                /\ mText'[c] = mText[c] /\ mHtml'[c] = mHtml[c]]_vars
    /\ [][\A c1, c2 \in Callers :
            (c1 # c2 /\ Preparing(c1) /\ sendPc'[c1] # sendPc[c1]) =>
                (m' = m /\ sendPc'[c2] = sendPc[c2])]_vars

(* C31 witness: a call is about to compose its message while another
   call holds the mutex and is in the middle of its transmission *)
PreparedBeforeMutexWitness ==
    \E c1, c2 \in Callers :
        /\ sendPc[c1] = "args"
        /\ mArgs[c1] # NoArgs
        /\ m = SendProc(c2)
        /\ sendPc[c2] = "data"
        /\ message[c2] # <<>>

(* ---------------- C33 ---------------- *)
(* the step is a call of Update *)
UpdateCalled == stLast' # stLast /\ stLast'.op = "update"

(* C33: Update succeeds only on a row of that key with exactly that
   counter, and then raises the counter by 1; otherwise (a failure of the
   database apart) it returns entry-not-found and leaves the row as it is;
   and of the Updates given the same counter at most one succeeds. *)
UpdateIsCompareAndSwap ==
    [][UpdateCalled =>
         LET a == stLast'
             row == store[a.key]
         IN  /\ a.err = "nil" =>
                   /\ row.exists /\ row.counter = a.counter
                   /\ store'[a.key].counter = row.counter + 1
                   /\ a.counter \notin stWonEver[a.key]
             /\ a.err # "nil" =>
                   (a.err \in {"notFound", "db"} /\ store' = store)]_vars

(* C33, amended: Update succeeds only on a row of that key with exactly
   that counter, and then stores the value and the expiration and raises
   the counter by 1; on any other row, or none, it returns
   entry-not-found, and when the statement fails it returns the
   database's error; in both cases the row stays as it is.  Of the Updates
   given the same counter at most one succeeds for as long as the row is
   not inserted anew, replaced or deleted, which starts the counter at 0
   again. *)
UpdateIsCompareAndSwapPerRow ==
    [][UpdateCalled =>
         LET a == stLast'
             row == store[a.key]
         IN  /\ a.err = "nil" =>
                   /\ row.exists /\ row.counter = a.counter
                   /\ store'[a.key] =
                        Row(a.value, row.counter + 1, a.expiration)
                   /\ a.counter \notin stWon[a.key]
             /\ a.err # "nil" =>
                   (a.err \in {"notFound", "db"} /\ store' = store)
             /\ a.err = "notFound" =>
                   ~(row.exists /\ row.counter = a.counter)]_vars

(* C33 witness: an Update has lost against an earlier Update that was
   given the same counter: the row is there, with the counter raised *)
UpdateIsCompareAndSwapWitness ==
    /\ stLast.op = "update"
    /\ stLast.err = "notFound"
    /\ store[stLast.key].exists
    /\ stLast.counter \in stWon[stLast.key]
    /\ store[stLast.key].counter = stLast.counter + 1

====
